---- MODULE Spec2Model ----
(***************************************************************************)
(* Model of the sampling loop (SamplingLoop.run), the tool registry        *)
(* (ToolCollection) and the tool-result assembly of ashbuilds/computer-use. *)
(*                                                                         *)
(* A JavaScript object with optional fields is a record that has only the  *)
(* fields that are set; "truthy" is "set and not the empty string".        *)
(* A message content that may be a string or an array is [str |-> s] or    *)
(* [arr |-> <<blocks>>].                                                   *)
(***************************************************************************)
EXTENDS Integers, Sequences, FiniteSets, TLC

VARIABLES
    messages,           \* options.messages: the conversation array shared with the caller
    keep,               \* options.onlyNMostRecentImages (0: absent or zero)
    toolMap,            \* ToolCollection.toolMap: name -> tool
    pc,                 \* position of run: "start", "call", "block", "returned", "failed"
    response,           \* response.content of the response being processed
    idx,                \* position of the for loop over response.content (1-based)
    toolResultContent,  \* the local array toolResultContent of the current iteration
    apiCalls,           \* number of client.beta.messages.create calls issued so far
    rejection,          \* the error run rejected with, or NoError
    log,                \* observable events in the order they happen
    fileHistory,        \* EditTool.fileHistory: path -> the texts pushed for undo
    files               \* the file system: path -> what is stored there

vars == <<messages, keep, toolMap, pc, response, idx, toolResultContent,
          apiCalls, rejection, log, fileHistory, files>>

----------------------------------------------------------------------------
(* Bounds of the model *)

MaxCalls == 3        \* service calls that complete in one run
MaxBlocks == 3       \* content blocks the service sends in one run, over all responses
SeedImages == 9      \* tool-result images in the history a caller passes to run

(* Program constants *)

DefaultMinRemovalThreshold == 10

NoError == "<none>"

----------------------------------------------------------------------------
(* JavaScript helpers *)

\* if (obj.field): the field is set and is not the empty string
Truthy(obj, field) == field \in DOMAIN obj /\ obj[field] # ""

\* a % b of JavaScript for b > 0: the result has the sign of the dividend
JsRem(a, b) == IF a >= 0 THEN a % b ELSE 0 - ((0 - a) % b)

\* `${err}` for an Error object: "<name>: <message>", or "<name>" when message is empty
ErrToString(class, message) ==
    IF message = "" THEN class ELSE class \o ": " \o message

ArrayIsArray(content) == "arr" \in DOMAIN content

Arr(blocks) == [arr |-> blocks]
Str(s) == [str |-> s]

\* Array.isArray(c) ? c : []
ItemsOf(content) == IF ArrayIsArray(content) THEN content.arr ELSE <<>>

----------------------------------------------------------------------------
(* tools/base.ts *)

ToolFailure(error) == [error |-> error]

ToolsOfLoop == <<"ComputerTool", "BashTool", "EditTool">>

BashToolName == "bash"

\* tool.toParams().name
ToParamsName(tool) ==
    CASE tool = "ComputerTool" -> "computer"
      [] tool = "BashTool" -> BashToolName
      [] tool = "EditTool" -> "str_replace_editor"
      [] tool = "ComputerTool#2" -> "computer"    \* a second ComputerTool instance

\* Map.set that leaves a key that is already set as it is
MapSet_keepFirst(map, key, value) ==
    IF key \in DOMAIN map THEN map
    ELSE [k \in (DOMAIN map) \cup {key} |-> IF k = key THEN value ELSE map[k]]

\* Map.set(key, value)
MapSet(map, key, value) ==
    [k \in (DOMAIN map) \cup {key} |-> IF k = key THEN value ELSE map[k]]

EmptyMap == [k \in {} |-> ""]

RECURSIVE ToolCollectionNew(_)
\* constructor(tools): tools.forEach(tool => toolMap.set(tool.toParams().name, tool))
ToolCollectionNew(tools) ==
    IF tools = <<>> THEN EmptyMap
    ELSE LET n == Len(tools)
         IN MapSet(ToolCollectionNew(SubSeq(tools, 1, n - 1)),
                   ToParamsName(tools[n]), tools[n])

\* What tool.execute(toolInput) can do: resolve with a ToolResult, reject with a
\* ToolError, or reject with any other error.
ExecuteOutcomes ==
    { [kind |-> "return", result |-> [base64Image |-> "iVBOR", mediaType |-> "image/png"]],
      [kind |-> "return", result |-> [output |-> "X=1,Y=2"]],
      [kind |-> "throw", class |-> "ToolError", message |-> "text is required for key"],
      [kind |-> "throw", class |-> "ToolError", message |-> ""],
      [kind |-> "throw", class |-> "Error", message |-> "boom"] }

\* ToolCollection.run with a catch that handles ToolError only
ToolCollectionRun_rethrow(map, name, outcome) ==
    IF name \notin DOMAIN map
    THEN [kind |-> "return", executed |-> FALSE,
          result |-> ToolFailure("Tool " \o name \o " is invalid")]
    ELSE IF outcome.kind = "return"
    THEN [kind |-> "return", executed |-> TRUE, result |-> outcome.result]
    ELSE IF outcome.class = "ToolError"
    THEN [kind |-> "return", executed |-> TRUE, result |-> ToolFailure(outcome.message)]
    ELSE [kind |-> "throw", executed |-> TRUE,
          error |-> ErrToString(outcome.class, outcome.message)]

\* ToolCollection.run without the lookup check: execute is called on undefined
\* inside the try block, and the TypeError is caught
ToolCollectionRun_noLookupCheck(map, name, outcome) ==
    IF name \notin DOMAIN map
    THEN [kind |-> "return", executed |-> FALSE,
          result |-> ToolFailure("Unknown error: TypeError: Cannot read properties of undefined (reading 'execute')")]
    ELSE IF outcome.kind = "return"
    THEN [kind |-> "return", executed |-> TRUE, result |-> outcome.result]
    ELSE IF outcome.class = "ToolError"
    THEN [kind |-> "return", executed |-> TRUE, result |-> ToolFailure(outcome.message)]
    ELSE [kind |-> "return", executed |-> TRUE,
          result |-> ToolFailure("Unknown error: "
                                 \o ErrToString(outcome.class, outcome.message))]

\* ToolCollection.run with a catch that reports every error that is not a
\* ToolError by one fixed text
ToolCollectionRun_fixedText(map, name, outcome) ==
    IF name \notin DOMAIN map
    THEN [kind |-> "return", executed |-> FALSE,
          result |-> ToolFailure("Tool " \o name \o " is invalid")]
    ELSE IF outcome.kind = "return"
    THEN [kind |-> "return", executed |-> TRUE, result |-> outcome.result]
    ELSE IF outcome.class = "ToolError"
    THEN [kind |-> "return", executed |-> TRUE, result |-> ToolFailure(outcome.message)]
    ELSE [kind |-> "return", executed |-> TRUE, result |-> ToolFailure("Unknown error")]

\* ToolCollection.run(name, toolInput), given what execute would do.
\* kind "return": the promise resolves with result; kind "throw": it rejects.
\* executed: whether tool.execute was called.
ToolCollectionRun(map, name, outcome) ==
    IF name \notin DOMAIN map
    THEN [kind |-> "return", executed |-> FALSE,
          result |-> ToolFailure("Tool " \o name \o " is invalid")]
    ELSE IF outcome.kind = "return"
    THEN [kind |-> "return", executed |-> TRUE, result |-> outcome.result]
    ELSE IF outcome.class = "ToolError"
    THEN [kind |-> "return", executed |-> TRUE, result |-> ToolFailure(outcome.message)]
    ELSE [kind |-> "return", executed |-> TRUE,
          result |-> ToolFailure("Unknown error: "
                                 \o ErrToString(outcome.class, outcome.message))]

----------------------------------------------------------------------------
(* loop.ts: result assembly *)

maybePrependSystemToolResult(result, text) ==
    IF Truthy(result, "system")
    THEN "<system>" \o result.system \o "</system>\n" \o text
    ELSE text

TextBlock(text) == [type |-> "text", text |-> text]

ImageBlock(mediaType, data) ==
    [type |-> "image",
     source |-> [type |-> "base64", media_type |-> mediaType, data |-> data]]

\* makeApiToolResult pushing the image before the text
makeApiToolResult_imageFirst(result, toolUseId) ==
    LET content ==
            IF Truthy(result, "error")
            THEN <<TextBlock(maybePrependSystemToolResult(result, result.error))>>
            ELSE (IF Truthy(result, "base64Image")
                  THEN <<ImageBlock(IF Truthy(result, "mediaType")
                                    THEN result.mediaType ELSE "image/png",
                                    result.base64Image)>>
                  ELSE <<>>)
                 \o
                 (IF Truthy(result, "output")
                  THEN <<TextBlock(maybePrependSystemToolResult(result, result.output))>>
                  ELSE <<>>)
    IN [type |-> "tool_result",
        tool_use_id |-> toolUseId,
        content |-> Arr(content),
        is_error |-> Truthy(result, "error")]

makeApiToolResult(result, toolUseId) ==
    LET content ==
            IF Truthy(result, "error")
            THEN <<TextBlock(maybePrependSystemToolResult(result, result.error))>>
            ELSE (IF Truthy(result, "output")
                  THEN <<TextBlock(maybePrependSystemToolResult(result, result.output))>>
                  ELSE <<>>)
                 \o
                 (IF Truthy(result, "base64Image")
                  THEN <<ImageBlock(IF Truthy(result, "mediaType")
                                    THEN result.mediaType ELSE "image/png",
                                    result.base64Image)>>
                  ELSE <<>>)
    IN [type |-> "tool_result",
        tool_use_id |-> toolUseId,
        content |-> Arr(content),
        is_error |-> Truthy(result, "error")]

----------------------------------------------------------------------------
(* loop.ts: filterNMostRecentImages *)

IsToolResult(item) == item.type = "tool_result"
IsImage(item) == item.type = "image"

RECURSIVE CountImages(_)
CountImages(items) ==
    IF items = <<>> THEN 0
    ELSE (IF IsImage(Head(items)) THEN 1 ELSE 0) + CountImages(Tail(items))

RECURSIVE BlockImages(_)
\* images inside the tool_result blocks of one message content
BlockImages(blocks) ==
    IF blocks = <<>> THEN 0
    ELSE (IF IsToolResult(Head(blocks))
          THEN CountImages(ItemsOf(Head(blocks).content)) ELSE 0)
         + BlockImages(Tail(blocks))

RECURSIVE TotalImages(_)
\* totalImages: images inside tool_result blocks over all messages
TotalImages(msgs) ==
    IF msgs = <<>> THEN 0
    ELSE BlockImages(ItemsOf(Head(msgs).content)) + TotalImages(Tail(msgs))

RECURSIVE FilterItems_anyItem(_, _, _)
\* The content filter without the test for the item's type
FilterItems_anyItem(items, n, kept) ==
    IF items = <<>> THEN [items |-> kept, n |-> n]
    ELSE IF n > 0
    THEN FilterItems_anyItem(Tail(items), n - 1, kept)
    ELSE FilterItems_anyItem(Tail(items), n, Append(kept, Head(items)))

RECURSIVE FilterItems(_, _, _)
\* result.content.filter(...) over the items not yet visited: an image is dropped
\* while n > 0. kept: the items kept so far. Yields the new content and what is
\* left of n.
FilterItems(items, n, kept) ==
    IF items = <<>> THEN [items |-> kept, n |-> n]
    ELSE IF IsImage(Head(items)) /\ n > 0
    THEN FilterItems(Tail(items), n - 1, kept)
    ELSE FilterItems(Tail(items), n, Append(kept, Head(items)))

RECURSIVE FilterBlocks(_, _, _)
\* for (const result of toolResultBlocks) over the blocks of one message
FilterBlocks(blocks, n, done) ==
    IF blocks = <<>> THEN [blocks |-> done, n |-> n]
    ELSE LET b == Head(blocks)
             hit == IsToolResult(b) /\ ArrayIsArray(b.content)
             f == FilterItems(ItemsOf(b.content), n, <<>>)
         IN IF hit
            THEN FilterBlocks(Tail(blocks), f.n,
                              Append(done, [b EXCEPT !.content = Arr(f.items)]))
            ELSE FilterBlocks(Tail(blocks), n, Append(done, b))

RECURSIVE FilterMessages_newestFirst(_, _, _)
\* The removal walking the messages from the last one back to the first
FilterMessages_newestFirst(msgs, n, done) ==
    IF msgs = <<>> THEN done
    ELSE LET m == msgs[Len(msgs)]
             rest == SubSeq(msgs, 1, Len(msgs) - 1)
             f == FilterBlocks(ItemsOf(m.content), n, <<>>)
         IN IF ArrayIsArray(m.content)
            THEN FilterMessages_newestFirst(rest, f.n,
                                            <<[m EXCEPT !.content = Arr(f.blocks)]>> \o done)
            ELSE FilterMessages_newestFirst(rest, n, <<m>> \o done)

RECURSIVE FilterMessages(_, _, _)
\* for (const result of toolResultBlocks) over the messages in order
FilterMessages(msgs, n, done) ==
    IF msgs = <<>> THEN done
    ELSE LET m == Head(msgs)
             f == FilterBlocks(ItemsOf(m.content), n, <<>>)
         IN IF ArrayIsArray(m.content)
            THEN FilterMessages(Tail(msgs), f.n,
                                Append(done, [m EXCEPT !.content = Arr(f.blocks)]))
            ELSE FilterMessages(Tail(msgs), n, Append(done, m))

\* filterNMostRecentImages without the rounding down to the threshold
filterNMostRecentImages_noRounding(msgs, imagesToKeep, minRemovalThreshold) ==
    LET imagesToRemove == TotalImages(msgs) - imagesToKeep
    IN IF imagesToRemove <= 0 THEN msgs ELSE FilterMessages(msgs, imagesToRemove, <<>>)

\* filterNMostRecentImages rounding the number to remove up to the threshold
filterNMostRecentImages_roundUp(msgs, imagesToKeep, minRemovalThreshold) ==
    LET excess == TotalImages(msgs) - imagesToKeep
        rem == JsRem(excess, minRemovalThreshold)
        imagesToRemove == IF rem = 0 THEN excess ELSE excess - rem + minRemovalThreshold
    IN IF imagesToRemove <= 0 THEN msgs ELSE FilterMessages(msgs, imagesToRemove, <<>>)

\* filterNMostRecentImages removing at most one threshold's worth per call
filterNMostRecentImages_oneBatch(msgs, imagesToKeep, minRemovalThreshold) ==
    LET excess == TotalImages(msgs) - imagesToKeep
        imagesToRemove == IF excess < minRemovalThreshold THEN excess
                          ELSE minRemovalThreshold
    IN IF imagesToRemove <= 0 THEN msgs ELSE FilterMessages(msgs, imagesToRemove, <<>>)

\* filterNMostRecentImages(messages, imagesToKeep, minRemovalThreshold): the
\* conversation after the in-place removal
filterNMostRecentImages(msgs, imagesToKeep, minRemovalThreshold) ==
    LET excess == TotalImages(msgs) - imagesToKeep
        imagesToRemove == excess - JsRem(excess, minRemovalThreshold)
    IN IF imagesToRemove <= 0 THEN msgs ELSE FilterMessages(msgs, imagesToRemove, <<>>)

----------------------------------------------------------------------------
(* The reasoning service and the caller *)

ToolUseBlock(id, name) ==
    [type |-> "tool_use", id |-> id, name |-> name, input |-> [action |-> "screenshot"]]

\* One content block of a response: text, or a tool_use naming a registered tool
\* ("computer") or an unregistered one ("missing"). The service gives every
\* tool_use block its own id: here <<call number, position>>.
BlockKinds == {"text", "computer", "missing"}

ResponseBlock(kind, call, k) ==
    IF kind = "text" THEN TextBlock("ok") ELSE ToolUseBlock(<<call, k>>, kind)

\* response.content of the call-th service call, of at most maxLen blocks
Responses(call, maxLen) ==
    UNION { { [k \in 1..n |-> ResponseBlock(f[k], call, k)] : f \in [1..n -> BlockKinds] }
            : n \in 0..maxLen }

ServiceErrors == {"overloaded_error", "connection_error"}

\* options.messages as passed to run: the user's request, optionally followed by
\* an earlier exchange of n tool uses answered with one screenshot each
SeedConversation(n) ==
    <<[role |-> "user", content |-> Str("open the browser")]>>
    \o (IF n = 0 THEN <<>>
        ELSE <<[role |-> "assistant",
                content |-> Arr([k \in 1..n |-> ToolUseBlock(<<0, k>>, "computer")])],
               [role |-> "user",
                content |-> Arr([k \in 1..n |->
                    makeApiToolResult([base64Image |-> "iVBOR"], <<0, k>>)])]>>)

SeedCounts == {0, SeedImages, 2 * SeedImages}

Keeps == {0, 1}

RECURSIVE BlocksReceived(_)
\* content blocks of all responses received so far
BlocksReceived(events) ==
    IF events = <<>> THEN 0
    ELSE (IF Head(events).ev = "apiResponseCallback" THEN Len(Head(events).content) ELSE 0)
         + BlocksReceived(Tail(events))

----------------------------------------------------------------------------
(* loop.ts: SamplingLoop.run *)

CreateEvent(n) == [ev |-> "create", call |-> n]

Init ==
    /\ keep \in Keeps
    /\ messages \in {SeedConversation(n) : n \in SeedCounts}
    /\ toolMap = ToolCollectionNew(ToolsOfLoop)
    /\ pc = "start"
    /\ response = <<>>
    /\ idx = 1
    /\ toolResultContent = <<>>
    /\ apiCalls = 0
    /\ rejection = NoError
    /\ fileHistory = EmptyMap
    /\ files = EmptyMap
    /\ log = <<>>

\* Entry of run up to the first await: the optional filter, then the first
\* client.beta.messages.create call is issued.
Start ==
    /\ pc = "start"
    /\ messages' = IF keep # 0
                   THEN filterNMostRecentImages(messages, keep, DefaultMinRemovalThreshold)
                   ELSE messages
    /\ pc' = "call"
    /\ apiCalls' = 1
    /\ log' = Append(log, CreateEvent(1))
    /\ UNCHANGED <<keep, toolMap, response, idx, toolResultContent, rejection,
                   fileHistory, files>>

\* The create call resolves, and a response without content blocks is not pushed
ApiRespond_skipEmpty(content) ==
    /\ pc = "call"
    /\ apiCalls <= MaxCalls
    /\ log' = Append(log, [ev |-> "apiResponseCallback", content |-> content])
    /\ messages' = IF content = <<>> THEN messages
                   ELSE Append(messages, [role |-> "assistant", content |-> Arr(content)])
    /\ toolResultContent' = <<>>
    /\ response' = content
    /\ idx' = 1
    /\ pc' = "block"
    /\ UNCHANGED <<keep, toolMap, apiCalls, rejection, fileHistory, files>>

\* The awaited create call resolves: apiResponseCallback, the assistant message
\* is pushed, toolResultContent is reset and the for loop begins.
ApiRespond(content) ==
    /\ pc = "call"
    /\ apiCalls <= MaxCalls
    /\ log' = Append(log, [ev |-> "apiResponseCallback", content |-> content])
    /\ messages' = Append(messages, [role |-> "assistant", content |-> Arr(content)])
    /\ toolResultContent' = <<>>
    /\ response' = content
    /\ idx' = 1
    /\ pc' = "block"
    /\ UNCHANGED <<keep, toolMap, apiCalls, rejection, fileHistory, files>>

\* run with a catch around the create call that logs the error and calls again
ApiFail_retry(err) ==
    /\ pc = "call"
    /\ apiCalls <= MaxCalls
    /\ log' = log \o <<[ev |-> "createFailed", error |-> err], CreateEvent(apiCalls + 1)>>
    /\ apiCalls' = apiCalls + 1
    /\ UNCHANGED <<messages, keep, toolMap, pc, response, idx, toolResultContent,
                   rejection, fileHistory, files>>

\* The create call rejects, and apiResponseCallback is called with the error
\* before run rejects
ApiFail_notifies(err) ==
    /\ pc = "call"
    /\ apiCalls <= MaxCalls
    /\ log' = log \o <<[ev |-> "apiResponseCallback", content |-> <<>>],
                       [ev |-> "createFailed", error |-> err]>>
    /\ rejection' = err
    /\ pc' = "failed"
    /\ UNCHANGED <<messages, keep, toolMap, response, idx, toolResultContent, apiCalls,
                   fileHistory, files>>

\* The awaited create call rejects: nothing catches it, run rejects with it.
ApiFail(err) ==
    /\ pc = "call"
    /\ apiCalls <= MaxCalls
    /\ log' = Append(log, [ev |-> "createFailed", error |-> err])
    /\ rejection' = err
    /\ pc' = "failed"
    /\ UNCHANGED <<messages, keep, toolMap, response, idx, toolResultContent, apiCalls,
                   fileHistory, files>>

\* The iteration on a block that is not a tool_use, without the outputCallback
Observe_silent ==
    /\ pc = "block"
    /\ idx <= Len(response)
    /\ response[idx].type # "tool_use"
    /\ idx' = idx + 1
    /\ UNCHANGED <<messages, keep, toolMap, pc, response, toolResultContent, apiCalls,
                   rejection, log, fileHistory, files>>

\* One iteration of the for loop on a block that is not a tool_use
Observe ==
    /\ pc = "block"
    /\ idx <= Len(response)
    /\ response[idx].type # "tool_use"
    /\ log' = Append(log, [ev |-> "outputCallback", block |-> response[idx]])
    /\ idx' = idx + 1
    /\ UNCHANGED <<messages, keep, toolMap, pc, response, toolResultContent, apiCalls,
                   rejection, fileHistory, files>>

PushToolResult_overwrite(content, toolResult) == <<toolResult>>

PushToolResult_unshift(content, toolResult) == <<toolResult>> \o content

\* toolResultContent.push(toolResult)
PushToolResult(content, toolResult) == Append(content, toolResult)

\* The iteration on a tool_use block with a break after a failed dispatch
Dispatch_breakOnFailure(outcome) ==
    /\ pc = "block"
    /\ idx <= Len(response)
    /\ response[idx].type = "tool_use"
    /\ LET block == response[idx]
           r == ToolCollectionRun(toolMap, block.name, outcome)
           called == <<[ev |-> "outputCallback", block |-> block],
                       [ev |-> "run", id |-> block.id, name |-> block.name,
                        input |-> block.input]>>
                     \o (IF r.executed
                         THEN <<[ev |-> "execute", tool |-> toolMap[block.name],
                                 input |-> block.input, outcome |-> outcome]>>
                         ELSE <<>>)
       IN IF r.kind = "throw"
          THEN /\ log' = log \o called
               /\ rejection' = r.error
               /\ pc' = "failed"
               /\ UNCHANGED <<idx, toolResultContent>>
          ELSE /\ toolResultContent' =
                     PushToolResult(toolResultContent,
                                    makeApiToolResult(r.result, block.id))
               /\ log' = log \o called
                         \o <<[ev |-> "toolOutputCallback", result |-> r.result,
                               toolId |-> block.id]>>
               /\ idx' = IF "error" \in DOMAIN r.result THEN Len(response) + 1 ELSE idx + 1
               /\ UNCHANGED <<pc, rejection>>
    /\ UNCHANGED <<messages, keep, toolMap, response, apiCalls, fileHistory, files>>

\* The iteration on a tool_use block calling toolOutputCallback only for a result
\* without error
Dispatch_callbackOnSuccess(outcome) ==
    /\ pc = "block"
    /\ idx <= Len(response)
    /\ response[idx].type = "tool_use"
    /\ LET block == response[idx]
           r == ToolCollectionRun(toolMap, block.name, outcome)
           called == <<[ev |-> "outputCallback", block |-> block],
                       [ev |-> "run", id |-> block.id, name |-> block.name,
                        input |-> block.input]>>
                     \o (IF r.executed
                         THEN <<[ev |-> "execute", tool |-> toolMap[block.name],
                                 input |-> block.input, outcome |-> outcome]>>
                         ELSE <<>>)
       IN IF r.kind = "throw"
          THEN /\ log' = log \o called
               /\ rejection' = r.error
               /\ pc' = "failed"
               /\ UNCHANGED <<idx, toolResultContent>>
          ELSE /\ toolResultContent' =
                     PushToolResult(toolResultContent,
                                    makeApiToolResult(r.result, block.id))
               /\ log' = log \o called
                         \o (IF "error" \in DOMAIN r.result THEN <<>>
                             ELSE <<[ev |-> "toolOutputCallback", result |-> r.result,
                                     toolId |-> block.id]>>)
               /\ idx' = idx + 1
               /\ UNCHANGED <<pc, rejection>>
    /\ UNCHANGED <<messages, keep, toolMap, response, apiCalls, fileHistory, files>>

\* The iteration on a tool_use block that, when the next block is a tool_use too,
\* starts both dispatches before awaiting either
Dispatch_parallel(outcome) ==
    /\ pc = "block"
    /\ idx <= Len(response)
    /\ response[idx].type = "tool_use"
    /\ LET both == idx < Len(response) /\ response[idx + 1].type = "tool_use"
           blocks == IF both THEN <<response[idx], response[idx + 1]>>
                     ELSE <<response[idx]>>
           r == [k \in 1..Len(blocks) |-> ToolCollectionRun(toolMap, blocks[k].name, outcome)]
           started == [k \in 1..Len(blocks) |->
                          <<[ev |-> "outputCallback", block |-> blocks[k]],
                            [ev |-> "run", id |-> blocks[k].id, name |-> blocks[k].name,
                             input |-> blocks[k].input]>>
                          \o (IF r[k].executed
                              THEN <<[ev |-> "execute", tool |-> toolMap[blocks[k].name],
                                      input |-> blocks[k].input, outcome |-> outcome]>>
                              ELSE <<>>)]
           finished == [k \in 1..Len(blocks) |->
                           <<[ev |-> "toolOutputCallback", result |-> r[k].result,
                              toolId |-> blocks[k].id]>>]
           results == [k \in 1..Len(blocks) |-> makeApiToolResult(r[k].result, blocks[k].id)]
           all(seqs) == IF Len(seqs) = 1 THEN seqs[1] ELSE seqs[1] \o seqs[2]
       IN /\ toolResultContent' = toolResultContent \o results
          /\ log' = log \o all(started) \o all(finished)
          /\ idx' = idx + Len(blocks)
    /\ UNCHANGED <<messages, keep, toolMap, pc, response, apiCalls, rejection,
                   fileHistory, files>>

\* The iteration on a tool_use block dispatching a second time when the first
\* dispatch gave a result with an error
Dispatch_retryOnFailure(outcome) ==
    /\ pc = "block"
    /\ idx <= Len(response)
    /\ response[idx].type = "tool_use"
    /\ LET block == response[idx]
           r == ToolCollectionRun(toolMap, block.name, outcome)
           dispatched == <<[ev |-> "run", id |-> block.id, name |-> block.name,
                            input |-> block.input]>>
                         \o (IF r.executed
                             THEN <<[ev |-> "execute", tool |-> toolMap[block.name],
                                     input |-> block.input, outcome |-> outcome]>>
                             ELSE <<>>)
           called == <<[ev |-> "outputCallback", block |-> block]>> \o dispatched
                     \o (IF "error" \in DOMAIN r.result THEN dispatched ELSE <<>>)
       IN /\ toolResultContent' =
                PushToolResult(toolResultContent, makeApiToolResult(r.result, block.id))
          /\ log' = log \o called
                    \o <<[ev |-> "toolOutputCallback", result |-> r.result,
                          toolId |-> block.id]>>
          /\ idx' = idx + 1
    /\ UNCHANGED <<messages, keep, toolMap, pc, response, apiCalls, rejection,
                   fileHistory, files>>

\* The iteration on a tool_use block calling outputCallback after the dispatch
\* has completed
Dispatch_observeLast(outcome) ==
    /\ pc = "block"
    /\ idx <= Len(response)
    /\ response[idx].type = "tool_use"
    /\ LET block == response[idx]
           r == ToolCollectionRun(toolMap, block.name, outcome)
           called == <<[ev |-> "run", id |-> block.id, name |-> block.name,
                        input |-> block.input]>>
                     \o (IF r.executed
                         THEN <<[ev |-> "execute", tool |-> toolMap[block.name],
                                 input |-> block.input, outcome |-> outcome]>>
                         ELSE <<>>)
       IN /\ toolResultContent' =
                PushToolResult(toolResultContent, makeApiToolResult(r.result, block.id))
          /\ log' = log \o called
                    \o <<[ev |-> "toolOutputCallback", result |-> r.result,
                          toolId |-> block.id],
                         [ev |-> "outputCallback", block |-> block]>>
          /\ idx' = idx + 1
    /\ UNCHANGED <<messages, keep, toolMap, pc, response, apiCalls, rejection,
                   fileHistory, files>>

\* One iteration of the for loop on a tool_use block, given what the tool's
\* execute does if it is called.
Dispatch(outcome) ==
    /\ pc = "block"
    /\ idx <= Len(response)
    /\ response[idx].type = "tool_use"
    /\ LET block == response[idx]
           r == ToolCollectionRun(toolMap, block.name, outcome)
           called == <<[ev |-> "outputCallback", block |-> block],
                       [ev |-> "run", id |-> block.id, name |-> block.name,
                        input |-> block.input]>>
                     \o (IF r.executed
                         THEN <<[ev |-> "execute", tool |-> toolMap[block.name],
                                 input |-> block.input, outcome |-> outcome]>>
                         ELSE <<>>)
       IN IF r.kind = "throw"
          THEN /\ log' = log \o called
               /\ rejection' = r.error
               /\ pc' = "failed"
               /\ UNCHANGED <<idx, toolResultContent>>
          ELSE /\ toolResultContent' =
                     PushToolResult(toolResultContent,
                                    makeApiToolResult(r.result, block.id))
               /\ log' = log \o called
                         \o <<[ev |-> "toolOutputCallback", result |-> r.result,
                               toolId |-> block.id]>>
               /\ idx' = idx + 1
               /\ UNCHANGED <<pc, rejection>>
    /\ UNCHANGED <<messages, keep, toolMap, response, apiCalls, fileHistory, files>>

ShouldReturn_inverted(content) == Len(content) # 0

ShouldReturn_offByOne(content) == Len(content) <= 1

\* if (toolResultContent.length === 0)
ShouldReturn(content) == Len(content) = 0

\* After the for loop with no tool result: return messages
Return ==
    /\ pc = "block"
    /\ idx > Len(response)
    /\ ShouldReturn(toolResultContent)
    /\ pc' = "returned"
    /\ UNCHANGED <<messages, keep, toolMap, response, idx, toolResultContent, apiCalls,
                   rejection, log, fileHistory, files>>

\* After the for loop with tool results: the user message is stored over the last
\* message instead of being pushed
Continue_replaceLast ==
    /\ pc = "block"
    /\ idx > Len(response)
    /\ ~ShouldReturn(toolResultContent)
    /\ messages' = [messages EXCEPT ![Len(messages)] =
                        [role |-> "user", content |-> Arr(toolResultContent)]]
    /\ apiCalls' = apiCalls + 1
    /\ log' = Append(log, CreateEvent(apiCalls + 1))
    /\ pc' = "call"
    /\ UNCHANGED <<keep, toolMap, response, idx, toolResultContent, rejection,
                   fileHistory, files>>

\* After the for loop with tool results: push the user message and issue the
\* next create call
Continue ==
    /\ pc = "block"
    /\ idx > Len(response)
    /\ ~ShouldReturn(toolResultContent)
    /\ messages' = Append(messages, [role |-> "user", content |-> Arr(toolResultContent)])
    /\ apiCalls' = apiCalls + 1
    /\ log' = Append(log, CreateEvent(apiCalls + 1))
    /\ pc' = "call"
    /\ UNCHANGED <<keep, toolMap, response, idx, toolResultContent, rejection,
                   fileHistory, files>>

Next ==
    \/ Start
    \/ \E content \in Responses(apiCalls, MaxBlocks - BlocksReceived(log)) :
            ApiRespond(content)
    \/ \E err \in ServiceErrors : ApiFail(err)
    \/ Observe
    \/ \E outcome \in ExecuteOutcomes : Dispatch(outcome)
    \/ Return
    \/ Continue

Spec == Init /\ [][Next]_vars

\* The steps run takes by itself once a response has arrived. Callbacks and tool
\* dispatches complete, so run goes on while one of these steps is possible;
\* whether and when the service answers is up to the service.
LoopStep ==
    \/ Observe
    \/ \E outcome \in ExecuteOutcomes : Dispatch(outcome)
    \/ Return
    \/ Continue

FairSpec == Spec /\ WF_vars(LoopStep)

----------------------------------------------------------------------------
(* loop.ts: filterNMostRecentImages applied to any conversation *)

MaxTrimMessages == 3     \* messages of a conversation handed to the filter

\* A tool_result block as a caller may have put it into the conversation
ToolResultBlock(id, items, isError) ==
    [type |-> "tool_result", tool_use_id |-> id, content |-> Arr(items),
     is_error |-> isError]

TrimShapes == {"text", "request", "upload", "screenshot", "mixed", "failure", "plain"}

\* The m-th message of a conversation. Every image has its own data, named after
\* its place: message, block, item.
TrimMessage(shape, m) ==
    LET img(b, k) == ImageBlock("image/png",
                                "img" \o ToString(m) \o ToString(b) \o ToString(k))
    IN CASE shape = "text" ->
              [role |-> "user", content |-> Str("go on")]
         [] shape = "request" ->
              [role |-> "assistant",
               content |-> Arr(<<TextBlock("ok"), ToolUseBlock(<<m, 1>>, "computer")>>)]
         [] shape = "upload" ->
              [role |-> "user", content |-> Arr(<<img(1, 0), TextBlock("see this")>>)]
         [] shape = "screenshot" ->
              [role |-> "user",
               content |-> Arr(<<ToolResultBlock(<<m, 1>>, <<img(1, 1)>>, FALSE)>>)]
         [] shape = "mixed" ->
              [role |-> "user",
               content |-> Arr(<<ToolResultBlock(<<m, 1>>,
                                     <<TextBlock("a"), img(1, 2), img(1, 3)>>, FALSE),
                                 TextBlock("and"),
                                 ToolResultBlock(<<m, 2>>,
                                     <<img(3, 1), TextBlock("b")>>, TRUE)>>)]
         [] shape = "failure" ->
              [role |-> "user",
               content |-> Arr(<<ToolResultBlock(<<m, 1>>, <<TextBlock("boom")>>, TRUE)>>)]
         [] shape = "plain" ->
              [role |-> "user",
               content |-> Arr(<<[type |-> "tool_result", tool_use_id |-> <<m, 1>>,
                                  content |-> Str("done"), is_error |-> FALSE]>>)]

\* Image counts of the two worked examples: above and below imagesToKeep = 10
ScenarioImages == {5, 25}

TrimConversations ==
    UNION { { [m \in 1..n |-> TrimMessage(f[m], m)] : f \in [1..n -> TrimShapes] }
            : n \in 0..MaxTrimMessages }
    \cup { SeedConversation(n) : n \in ScenarioImages }

TrimKeeps == {0, 1, 2, 4, DefaultMinRemovalThreshold}

TrimBatches == {1, 2, 3, DefaultMinRemovalThreshold}

FilterEvent(before, imagesToKeep, minRemovalThreshold) ==
    [ev |-> "filter", before |-> before, imagesToKeep |-> imagesToKeep,
     minRemovalThreshold |-> minRemovalThreshold]

TrimInit ==
    /\ messages \in TrimConversations
    /\ keep \in TrimKeeps
    /\ toolMap = EmptyMap
    /\ pc = "filter"
    /\ response = <<>>
    /\ idx = 1
    /\ toolResultContent = <<>>
    /\ apiCalls = 0
    /\ rejection = NoError
    /\ fileHistory = EmptyMap
    /\ files = EmptyMap
    /\ log = <<>>

\* this.filterNMostRecentImages(messages, keep, minRemovalThreshold)
TrimApply(minRemovalThreshold) ==
    /\ pc = "filter"
    /\ messages' = filterNMostRecentImages(messages, keep, minRemovalThreshold)
    /\ log' = Append(log, FilterEvent(messages, keep, minRemovalThreshold))
    /\ pc' = "filtered"
    /\ UNCHANGED <<keep, toolMap, response, idx, toolResultContent, apiCalls, rejection,
                   fileHistory, files>>

\* The same call once more, on the conversation the first call left
TrimAgain ==
    /\ pc = "filtered"
    /\ messages' = filterNMostRecentImages(messages, keep, log[Len(log)].minRemovalThreshold)
    /\ log' = Append(log, FilterEvent(messages, keep, log[Len(log)].minRemovalThreshold))
    /\ pc' = "refiltered"
    /\ UNCHANGED <<keep, toolMap, response, idx, toolResultContent, apiCalls, rejection,
                   fileHistory, files>>

TrimNext ==
    \/ \E minRemovalThreshold \in TrimBatches : TrimApply(minRemovalThreshold)
    \/ TrimAgain

TrimSpec == TrimInit /\ [][TrimNext]_vars

----------------------------------------------------------------------------

(* loop.ts: makeApiToolResult applied to any ToolResult *)

ResultFields == {"output", "error", "base64Image", "system", "mediaType"}

\* Values a field of a ToolResult may be set to; a field that is undefined or
\* null is left out of the record
FieldValues(field) ==
    CASE field = "output" -> {"", "hi"}
      [] field = "error" -> {"", "bad input"}
      [] field = "base64Image" -> {"", "iVBOR"}
      [] field = "system" -> {"", "note"}
      [] field = "mediaType" -> {"image/jpeg"}

ToolResults ==
    UNION { { r \in [S -> UNION {FieldValues(f) : f \in ResultFields}] :
                  \A f \in S : r[f] \in FieldValues(f) }
            : S \in SUBSET ResultFields }

\* The tool_use block being answered
AssembleRequests == { ToolUseBlock(id, "computer") : id \in {<<1, 1>>, <<2, 3>>} }

AssembleInit ==
    /\ response \in { <<block>> : block \in AssembleRequests }
    /\ idx = 1
    /\ toolResultContent = <<>>
    /\ pc = "assemble"
    /\ messages = <<>>
    /\ keep = 0
    /\ toolMap = EmptyMap
    /\ apiCalls = 0
    /\ rejection = NoError
    /\ fileHistory = EmptyMap
    /\ files = EmptyMap
    /\ log = <<>>

\* const toolResult = this.makeApiToolResult(result, toolUseBlock.id);
\* toolResultContent.push(toolResult); toolOutputCallback(result, toolUseBlock.id)
Assemble(result) ==
    /\ pc = "assemble"
    /\ toolResultContent' =
           PushToolResult(toolResultContent, makeApiToolResult(result, response[idx].id))
    /\ log' = Append(log, [ev |-> "toolOutputCallback", result |-> result,
                           toolId |-> response[idx].id])
    /\ idx' = idx + 1
    /\ pc' = "assembled"
    /\ UNCHANGED <<messages, keep, toolMap, response, apiCalls, rejection, fileHistory,
                   files>>

AssembleNext == \E result \in ToolResults : Assemble(result)

AssembleSpec == AssembleInit /\ [][AssembleNext]_vars

----------------------------------------------------------------------------

(* tools/base.ts: ToolCollection built from any list of tools *)

MaxTools == 3     \* tools in the list passed to the ToolCollection constructor

\* Tool instances that may be passed to the constructor; two of them report the
\* name "computer"
ToolInstances == {"ComputerTool", "BashTool", "EditTool", "ComputerTool#2"}

ToolLists == UNION { [1..n -> ToolInstances] : n \in 0..MaxTools }

\* tool.toParams(): the descriptor of one tool instance
ToParams(tool) == [name |-> ToParamsName(tool), describes |-> tool]

RECURSIVE MapKeys(_)
\* The keys of the Map built from tools, in iteration order: the order in which
\* each name was set first
MapKeys(tools) ==
    IF tools = <<>> THEN <<>>
    ELSE LET n == Len(tools)
             before == MapKeys(SubSeq(tools, 1, n - 1))
             name == ToParamsName(tools[n])
         IN IF \E k \in 1..Len(before) : before[k] = name
            THEN before ELSE Append(before, name)

\* ToolCollection.toParams(): Array.from(toolMap.values()).map(tool => tool.toParams())
ToolCollectionToParams(map, keys) == [k \in 1..Len(keys) |-> ToParams(map[keys[k]])]

RegistryInit ==
    /\ toolMap = EmptyMap
    /\ pc = "new"
    /\ log = <<>>
    /\ messages = <<>>
    /\ keep = 0
    /\ response = <<>>
    /\ idx = 1
    /\ toolResultContent = <<>>
    /\ apiCalls = 0
    /\ rejection = NoError
    /\ fileHistory = EmptyMap
    /\ files = EmptyMap

\* new ToolCollection(tools)
Construct(tools) ==
    /\ pc = "new"
    /\ toolMap' = ToolCollectionNew(tools)
    /\ log' = Append(log, [ev |-> "new ToolCollection", tools |-> tools])
    /\ pc' = "ready"
    /\ UNCHANGED <<messages, keep, response, idx, toolResultContent, apiCalls,
                   rejection, fileHistory, files>>

\* toolCollection.toParams()
Describe ==
    /\ pc = "ready"
    /\ log' = Append(log, [ev |-> "toParams",
                           params |-> ToolCollectionToParams(toolMap, MapKeys(log[1].tools))])
    /\ pc' = "described"
    /\ UNCHANGED <<messages, keep, toolMap, response, idx, toolResultContent, apiCalls,
                   rejection, fileHistory, files>>

RegistryNext ==
    \/ \E tools \in ToolLists : Construct(tools)
    \/ Describe

RegistrySpec == RegistryInit /\ [][RegistryNext]_vars

----------------------------------------------------------------------------

(* index.ts: concurrent ComputerUseClient.sendMessage calls on one client.     *)
(* Here messages is the heap of conversation arrays allocated so far, and pc,  *)
(* response, idx, toolResultContent, apiCalls, rejection and log hold one      *)
(* value per sendMessage call; pc[i].messages is the array call i passed to    *)
(* run (0: none yet).                                                          *)

MaxClientCalls == 2     \* service calls that complete in one sendMessage call

Invocations == {1, 2}

MessageTexts == {"open the browser", "  "}

\* message.trim()
JsTrim(text) == IF text = "  " THEN "" ELSE text

ClientOutcomes ==
    { o \in ExecuteOutcomes :
          \/ o.kind = "return" /\ "output" \in DOMAIN o.result
          \/ o.kind = "throw" /\ o.class = "Error" }

\* response.content of a call of invocation i: no block, a text block or a tool_use
ClientResponses(i, call) ==
    { content \in Responses(<<i, call>>, 1) :
          \A k \in 1..Len(content) :
              content[k].type = "tool_use" => content[k].name = "computer" }

ClientInit ==
    /\ messages = <<>>
    /\ keep = 0
    /\ toolMap = ToolCollectionNew(ToolsOfLoop)
    /\ pc = [i \in Invocations |-> [at |-> "idle", messages |-> 0]]
    /\ response = [i \in Invocations |-> <<>>]
    /\ idx = [i \in Invocations |-> 1]
    /\ toolResultContent = [i \in Invocations |-> <<>>]
    /\ apiCalls = [i \in Invocations |-> 0]
    /\ rejection = [i \in Invocations |-> NoError]
    /\ fileHistory = EmptyMap
    /\ files = EmptyMap
    /\ log = [i \in Invocations |-> <<>>]

\* sendMessage keeping one conversation for all calls of the client
SendMessage_sharedHistory(i, message) ==
    /\ pc[i].at = "idle"
    /\ log' = [log EXCEPT ![i] = Append(@, [ev |-> "sendMessage", message |-> message])]
    /\ IF JsTrim(message) = ""
       THEN /\ rejection' = [rejection EXCEPT ![i] = "Message cannot be empty"]
            /\ pc' = [pc EXCEPT ![i].at = "failed"]
            /\ UNCHANGED <<messages, apiCalls>>
       ELSE /\ messages' = IF messages = <<>>
                           THEN <<<<[role |-> "user", content |-> Str(message)]>>>>
                           ELSE [messages EXCEPT ![1] =
                                     Append(@, [role |-> "user", content |-> Str(message)])]
            /\ pc' = [pc EXCEPT ![i] = [at |-> "call", messages |-> 1]]
            /\ apiCalls' = [apiCalls EXCEPT ![i] = 1]
            /\ UNCHANGED rejection
    /\ UNCHANGED <<keep, toolMap, response, idx, toolResultContent, fileHistory, files>>

\* sendMessage(message) up to the first await of run: the empty-message check,
\* the new messages array, and the first create call is issued
SendMessage(i, message) ==
    /\ pc[i].at = "idle"
    /\ log' = [log EXCEPT ![i] = Append(@, [ev |-> "sendMessage", message |-> message])]
    /\ IF JsTrim(message) = ""
       THEN /\ rejection' = [rejection EXCEPT ![i] = "Message cannot be empty"]
            /\ pc' = [pc EXCEPT ![i].at = "failed"]
            /\ UNCHANGED <<messages, apiCalls>>
       ELSE /\ messages' = Append(messages, <<[role |-> "user", content |-> Str(message)]>>)
            /\ pc' = [pc EXCEPT ![i] = [at |-> "call", messages |-> Len(messages) + 1]]
            /\ apiCalls' = [apiCalls EXCEPT ![i] = 1]
            /\ UNCHANGED rejection
    /\ UNCHANGED <<keep, toolMap, response, idx, toolResultContent, fileHistory, files>>

\* The create call of invocation i resolves: the assistant message is pushed
ClientRespond(i, content) ==
    /\ pc[i].at = "call"
    /\ apiCalls[i] <= MaxClientCalls
    /\ messages' = [messages EXCEPT ![pc[i].messages] =
                        Append(@, [role |-> "assistant", content |-> Arr(content)])]
    /\ response' = [response EXCEPT ![i] = content]
    /\ idx' = [idx EXCEPT ![i] = 1]
    /\ toolResultContent' = [toolResultContent EXCEPT ![i] = <<>>]
    /\ pc' = [pc EXCEPT ![i].at = "block"]
    /\ UNCHANGED <<keep, toolMap, apiCalls, rejection, log, fileHistory, files>>

\* The create call of invocation i rejects: sendMessage logs and rethrows
ClientFail(i, err) ==
    /\ pc[i].at = "call"
    /\ apiCalls[i] <= MaxClientCalls
    /\ rejection' = [rejection EXCEPT ![i] = err]
    /\ pc' = [pc EXCEPT ![i].at = "failed"]
    /\ UNCHANGED <<messages, keep, toolMap, response, idx, toolResultContent, apiCalls,
                   log, fileHistory, files>>

\* One iteration of the for loop of invocation i
ClientBlock(i, outcome) ==
    /\ pc[i].at = "block"
    /\ idx[i] <= Len(response[i])
    /\ LET block == response[i][idx[i]]
       IN toolResultContent' =
              IF block.type = "tool_use"
              THEN [toolResultContent EXCEPT ![i] =
                       PushToolResult(@, makeApiToolResult(
                           ToolCollectionRun(toolMap, block.name, outcome).result, block.id))]
              ELSE toolResultContent
    /\ idx' = [idx EXCEPT ![i] = @ + 1]
    /\ UNCHANGED <<messages, keep, toolMap, pc, response, apiCalls, rejection, log,
                   fileHistory, files>>

\* After the for loop of invocation i: return, or push the user message and
\* issue the next create call
ClientEnd(i) ==
    /\ pc[i].at = "block"
    /\ idx[i] > Len(response[i])
    /\ IF ShouldReturn(toolResultContent[i])
       THEN /\ pc' = [pc EXCEPT ![i].at = "returned"]
            /\ UNCHANGED <<messages, apiCalls>>
       ELSE /\ messages' = [messages EXCEPT ![pc[i].messages] =
                               Append(@, [role |-> "user",
                                          content |-> Arr(toolResultContent[i])])]
            /\ apiCalls' = [apiCalls EXCEPT ![i] = @ + 1]
            /\ pc' = [pc EXCEPT ![i].at = "call"]
    /\ UNCHANGED <<keep, toolMap, response, idx, toolResultContent, rejection, log,
                   fileHistory, files>>

ClientNext ==
    \E i \in Invocations :
        \/ \E message \in MessageTexts : SendMessage(i, message)
        \/ \E content \in ClientResponses(i, apiCalls[i]) : ClientRespond(i, content)
        \/ \E err \in ServiceErrors : ClientFail(i, err)
        \/ \E outcome \in ClientOutcomes : ClientBlock(i, outcome)
        \/ ClientEnd(i)

ClientSpec == ClientInit /\ [][ClientNext]_vars

----------------------------------------------------------------------------

(* loop.ts: ComputerTool.execute applied to any action and parameters.        *)
(* Here response holds the one params object passed to execute.               *)

\* README.md, "Available Actions"
ReadmeActions ==
    {"mouse_move", "left_click", "right_click", "middle_click", "left_click_drag",
     "mouse_scroll", "mouse_toggle", "key", "type", "key_toggle", "key_tap_multiple",
     "focus_window", "move_window", "resize_window", "minimize_window",
     "maximize_window", "screenshot", "cursor_position"}

\* type Action
Action ==
    {"mouse_move", "left_click", "left_click_drag", "right_click", "middle_click",
     "double_click", "mouse_scroll", "mouse_toggle", "screenshot", "cursor_position",
     "key", "type", "key_toggle", "key_tap_multiple", "focus_window", "move_window",
     "resize_window", "minimize_window", "maximize_window"}

\* Action names a request may carry: the model is free to send any string
ActionNames == ReadmeActions \cup Action \cup {"close_window"}

ParamFields == {"text", "coordinate", "scrollAmount", "toggleState", "windowTitle", "size"}

\* Values a field of ExecuteParams may be set to; an undefined field is left out
ParamValues(field) ==
    CASE field = "text" -> {"a"}
      [] field = "coordinate" -> {<<10, 20>>}
      [] field = "scrollAmount" -> {0, 3}
      [] field = "toggleState" -> {"down"}
      [] field = "windowTitle" -> {"Chrome"}
      [] field = "size" -> {[width |-> 800, height |-> 600]}

\* The params objects with the fields of a set, each with one of its values, added
\* to or left out of each object of a set
RECURSIVE WithFields(_, _)
WithFields(objects, fields) ==
    IF fields = {} THEN objects
    ELSE LET f == CHOOSE g \in fields : TRUE
             rest == WithFields(objects, fields \ {f})
         IN rest \cup { o @@ (f :> v) : o \in rest, v \in ParamValues(f) }

ExecuteParams == WithFields({ [action |-> a] : a \in ActionNames }, ParamFields)

\* What the machine does with the call: which of the effects the action needs, if
\* any, fails. The coordinate given is outside the screen ("off screen":
\* validateCoordinates throws) or outside it with scaling in use ("off scaled
\* screen": scaleCoordinates throws).
Machines == {"works", "off screen", "off scaled screen", "command fails", "screenshot fails"}

ToolErrorThrown(message) == [kind |-> "throw", class |-> "ToolError", message |-> message]

\* An outcome of execute together with the calls made on the machine before it:
\* robot calls, commands and the screenshot, in call order
NoEffect(outcome) == outcome @@ ("effects" :> <<>>)

\* The calls made first, then what follows them
Performed(calls, following) == [following EXCEPT !.effects = calls \o @]

\* takeDelayedScreenshot
TakeDelayedScreenshot(machine) ==
    Performed(<<"takeDelayedScreenshot">>,
              NoEffect(IF machine = "screenshot fails"
                       THEN ToolErrorThrown("Failed to take screenshot: Error")
                       ELSE [kind |-> "return",
                             result |-> [base64Image |-> "iVBOR", mediaType |-> "image/png"]]))

\* scaleCoordinates('api', x, y), then what follows
ScaleCoordinates(machine, following) ==
    IF machine = "off scaled screen"
    THEN NoEffect(ToolErrorThrown("Coordinates 10, 20 are outside screen bounds (8x6)"))
    ELSE following

\* The robot calls made, and validateCoordinates after them
ValidateCoordinates_afterCalls(machine, calls) ==
    IF machine = "off screen"
    THEN Performed(calls,
                   NoEffect(ToolErrorThrown("Coordinates (10, 20) are outside screen bounds (8x6)")))
    ELSE Performed(calls, TakeDelayedScreenshot(machine))

\* validateCoordinates, then the robot calls of the action and its screenshot
ValidateCoordinates(machine, calls) ==
    IF machine = "off screen"
    THEN NoEffect(ToolErrorThrown("Coordinates (10, 20) are outside screen bounds (8x6)"))
    ELSE Performed(calls, TakeDelayedScreenshot(machine))

\* executeCommand, then the screenshot
ExecuteCommand(operation, machine) ==
    Performed(<<"exec">>,
              IF machine = "command fails"
              THEN NoEffect(ToolErrorThrown("Failed to execute " \o operation \o ": ToolError"))
              ELSE TakeDelayedScreenshot(machine))

\* The scrollAmount after destructuring: const { scrollAmount = 1 } = params
ScrollAmount(params) == IF "scrollAmount" \in DOMAIN params THEN params.scrollAmount ELSE 1

\* ComputerTool.execute: the switch over params.action. The parameters the code
\* reads are all strings, pairs or objects here, so !x is "x is left out", except
\* for scrollAmount, where 0 is falsy too; button defaults to 'left' and is never
\* falsy.
ComputerToolExecute(params, machine) ==
    LET action == params.action
        has(f) == f \in DOMAIN params
        reject(message) == NoEffect(ToolErrorThrown(message))
        robot(calls) == Performed(calls, TakeDelayedScreenshot(machine))
    IN CASE action = "mouse_move" ->
              IF ~has("coordinate")
              THEN reject("coordinate is required for " \o action)
              ELSE ScaleCoordinates(machine,
                                    ValidateCoordinates(machine, <<"robot.moveMouse">>))
         [] action = "left_click_drag" ->
              IF ~has("coordinate")
              THEN reject("coordinate is required for " \o action)
              ELSE ScaleCoordinates(machine,
                       ValidateCoordinates(machine, <<"robot.mouseToggle", "robot.dragMouse",
                                                      "robot.mouseToggle">>))
         [] action = "mouse_toggle" ->
              IF ~has("toggleState")
              THEN reject("toggleState and button are required for mouse_toggle")
              ELSE robot(<<"robot.mouseToggle">>)
         [] action = "mouse_scroll" ->
              IF ScrollAmount(params) = 0
              THEN reject("scrollAmount is required for mouse_scroll")
              ELSE robot(<<"robot.scrollMouse">>)
         [] action = "key_toggle" ->
              IF ~has("text")
              THEN reject("text (key) is required for key_toggle")
              ELSE IF ~has("toggleState")
              THEN reject("toggleState is required for key_toggle")
              ELSE robot(<<"robot.keyToggle">>)
         [] action = "key_tap_multiple" ->
              IF ~has("text")
              THEN reject("text (key) is required for key_tap_multiple")
              ELSE robot(<<"robot.keyTap">>)
         [] action = "focus_window" ->
              IF ~has("windowTitle")
              THEN reject("windowTitle is required for focus_window")
              ELSE ExecuteCommand("window focus", machine)
         [] action = "move_window" ->
              IF ~has("windowTitle") \/ ~has("coordinate")
              THEN reject("windowTitle and coordinate are required for move_window")
              ELSE ScaleCoordinates(machine, ExecuteCommand("window move", machine))
         [] action = "resize_window" ->
              IF ~has("windowTitle") \/ ~has("size")
              THEN reject("windowTitle and size are required for resize_window")
              ELSE ExecuteCommand("window resize", machine)
         [] action \in {"left_click", "right_click", "middle_click", "double_click"} ->
              IF has("text")
              THEN reject("text is not accepted for " \o action)
              ELSE IF has("coordinate")
              THEN reject("coordinate is not accepted for " \o action)
              ELSE robot(<<"robot.mouseClick">>)
         [] action = "key" ->
              IF ~has("text")
              THEN reject("text is required for " \o action)
              ELSE IF has("coordinate")
              THEN reject("coordinate is not accepted for " \o action)
              ELSE robot(<<"robot.keyTap">>)
         [] action = "type" ->
              IF ~has("text")
              THEN reject("text is required for " \o action)
              ELSE IF has("coordinate")
              THEN reject("coordinate is not accepted for " \o action)
              ELSE robot(<<"robot.typeString">>)
         [] action = "screenshot" -> TakeDelayedScreenshot(machine)
         [] action = "cursor_position" ->
              Performed(<<"robot.getMousePos">>,
                        NoEffect([kind |-> "return", result |-> [output |-> "X=1,Y=2"]]))
         [] OTHER -> reject("Invalid action: " \o action)

ComputerInit ==
    /\ response \in { <<params>> : params \in ExecuteParams }
    /\ pc = "execute"
    /\ log = <<>>
    /\ messages = <<>>
    /\ keep = 0
    /\ toolMap = EmptyMap
    /\ idx = 1
    /\ toolResultContent = <<>>
    /\ apiCalls = 0
    /\ rejection = NoError
    /\ fileHistory = EmptyMap
    /\ files = EmptyMap

\* await tool.execute(params) on the ComputerTool
ComputerExecute(machine) ==
    /\ pc = "execute"
    /\ log' = Append(log, [ev |-> "execute", params |-> response[1],
                           machine |-> machine,
                           outcome |-> ComputerToolExecute(response[1], machine)])
    /\ pc' = "executed"
    /\ UNCHANGED <<messages, keep, toolMap, response, idx, toolResultContent, apiCalls,
                   rejection, fileHistory, files>>

ComputerNext == \E machine \in Machines : ComputerExecute(machine)

ComputerSpec == ComputerInit /\ [][ComputerNext]_vars

----------------------------------------------------------------------------

(* loop.ts: the screenshot step of the ComputerTool, takeDelayedScreenshot     *)
(* around takeScreenshot, called through the registry for one action. Here     *)
(* idx is the attempt of the for loop, response holds what the attempt that    *)
(* ended the loop met on the machine with what takeScreenshot made of it, and  *)
(* log the attempts and the result toolCollection.run resolved with.           *)

SCREENSHOT_RETRY_COUNT == 3

MAX_IMAGE_SIZE == 5 * 1024 * 1024

\* Object.entries(COMPRESSION_STEPS), in insertion order
COMPRESSION_STEPS == <<"initial", "medium", "high", "extreme">>

\* What an encoding of the captured screen gives: a buffer of some length, or an
\* error thrown by sharp
Buffer(length) == [length |-> length]
SharpError == [threw |-> "Error: Input buffer contains unsupported image format"]
Encodings == {Buffer(MAX_IMAGE_SIZE), Buffer(MAX_IMAGE_SIZE + 1), SharpError}

Threw(encoding) == "threw" \in DOMAIN encoding

\* What one call of takeScreenshot meets: whether fs.mkdir succeeds, whether the
\* capture and the write of the original do, what each encoding of the captured
\* screen gives, and whether the write of each encoded file succeeds. An error
\* of saveScreenshotMetadata is caught inside it and changes nothing.
Screens ==
    { [mkdir |-> FALSE], [mkdir |-> TRUE, capture |-> FALSE] }
    \cup { [mkdir |-> TRUE, capture |-> TRUE, png |-> png, pngWrite |-> pngWrite,
            jpeg |-> jpeg, jpegWrite |-> jpegWrite] :
               png \in Encodings, pngWrite \in BOOLEAN,
               jpeg \in [1..Len(COMPRESSION_STEPS) -> Encodings],
               jpegWrite \in [1..Len(COMPRESSION_STEPS) -> BOOLEAN] }

\* catch (error) { throw new ToolError('Failed to take screenshot: ' + error) }
FailedToTake(error) == ToolErrorThrown("Failed to take screenshot: " \o error)

WriteFailed == "Error: ENOSPC: no space left on device, write"

\* The for loop over the JPEG steps from step k on. kept is the step whose
\* result imageBuffer holds (0: still the PNG). A step that fits is assigned to
\* imageBuffer before its file is written; any error of a step, of the write
\* too, is caught and the loop continues with the next step.
RECURSIVE JpegSteps(_, _, _)
JpegSteps(screen, k, kept) ==
    IF k > Len(COMPRESSION_STEPS) THEN kept
    ELSE IF Threw(screen.jpeg[k]) THEN JpegSteps(screen, k + 1, kept)
    ELSE IF screen.jpeg[k].length <= MAX_IMAGE_SIZE
    THEN IF screen.jpegWrite[k] THEN k ELSE JpegSteps(screen, k + 1, k)
    ELSE JpegSteps(screen, k + 1, kept)

\* takeScreenshot(): fs.mkdir is outside the try block, so its error is thrown
\* as it is; every error inside is thrown again as a ToolError. The image
\* returned is named by its encoding, and its buffer is given with it.
takeScreenshot(screen) ==
    IF ~screen.mkdir
    THEN [kind |-> "throw", class |-> "Error",
          message |-> "EACCES: permission denied, mkdir"]
    ELSE IF ~screen.capture
    THEN FailedToTake("Error: capture failed")
    ELSE IF Threw(screen.png)
    THEN FailedToTake(screen.png.threw)
    ELSE IF screen.png.length <= MAX_IMAGE_SIZE
    THEN IF ~screen.pngWrite THEN FailedToTake(WriteFailed)
         ELSE [kind |-> "return", buffer |-> screen.png,
               result |-> [base64Image |-> "png", mediaType |-> "image/png"]]
    ELSE LET k == JpegSteps(screen, 1, 0)
         IN IF k = 0
            THEN FailedToTake("Error: Unable to compress image below 5MB limit")
            ELSE [kind |-> "return", buffer |-> screen.jpeg[k],
                  result |-> [base64Image |-> "jpeg " \o COMPRESSION_STEPS[k],
                              mediaType |-> "image/jpeg"]]

\* What the for loop of takeDelayedScreenshot does after an attempt: return the
\* result, throw the error of the last attempt, or go round again
AfterAttempt(attempt, outcome) ==
    IF outcome.kind = "return" THEN "return"
    ELSE IF attempt = SCREENSHOT_RETRY_COUNT THEN "throw"
    ELSE "retry"

ScreenshotInit ==
    /\ idx = 1
    /\ pc = "attempt"
    /\ response = <<>>
    /\ log = <<>>
    /\ rejection = NoError
    /\ toolMap = ToolCollectionNew(ToolsOfLoop)
    /\ messages = <<>>
    /\ keep = 0
    /\ toolResultContent = <<>>
    /\ apiCalls = 0
    /\ fileHistory = EmptyMap
    /\ files = EmptyMap

\* One round of the for loop: return await this.takeScreenshot(), or its catch
\* block. When takeDelayedScreenshot returns or throws, so does execute, and
\* toolCollection.run resolves.
Attempt(screen) ==
    /\ pc = "attempt"
    /\ \E outcome \in {takeScreenshot(screen)} :
       LET after == AfterAttempt(idx, outcome)
           attempted == Append(log, [ev |-> "takeScreenshot", attempt |-> idx,
                                     failed |-> outcome.kind = "throw"])
           ran == ToolCollectionRun(toolMap, ToParamsName("ComputerTool"), outcome)
       IN IF after = "retry"
          THEN /\ idx' = idx + 1
               /\ log' = attempted
               /\ UNCHANGED <<pc, response>>
          ELSE /\ pc' = IF after = "return" THEN "returned" ELSE "thrown"
               /\ response' = <<[screen |-> screen, outcome |-> outcome]>>
               /\ log' = Append(attempted, [ev |-> "run", result |-> ran.result])
               /\ UNCHANGED idx
    /\ UNCHANGED <<messages, keep, toolMap, toolResultContent, apiCalls, rejection,
                   fileHistory, files>>

ScreenshotNext == \E screen \in Screens : Attempt(screen)

ScreenshotSpec == ScreenshotInit /\ [][ScreenshotNext]_vars

----------------------------------------------------------------------------

(* tools/editor.ts: the commands of one EditTool on a small file system.      *)
(* Here rejection holds the message of the ToolError the last command threw   *)
(* (NoError when it returned a result), response the params of that command   *)
(* with the ToolResult toolCollection.run resolved with and the file system   *)
(* and history it started from, and log the commands that changed the file    *)
(* system or the history. A text is the sequence of its characters.           *)

MaxEdits == 4       \* commands of one EditTool that change a file or the history
MaxFileLen == 4     \* characters of a file's text

\* What fs.stat finds at a path: a file with its text, or a directory
File(content) == [isDirectory |-> FALSE, content |-> content]
Directory == [isDirectory |-> TRUE]

Newline == "\n"

RECURSIVE Text(_)
\* The characters of a text as one string, as a template literal prints it
Text(chars) == IF chars = <<>> THEN "" ELSE chars[1] \o Text(Tail(chars))

\* String.prototype.indexOf(search) + 1 for a search text that is not empty
\* (0: not found)
IndexOf(content, search) ==
    LET at == { i \in 1..(Len(content) - Len(search) + 1) :
                    SubSeq(content, i, i + Len(search) - 1) = search }
    IN IF at = {} THEN 0 ELSE CHOOSE i \in at : \A j \in at : i <= j

RECURSIVE Split(_, _)
\* String.prototype.split(separator) for a separator that is not empty
Split(content, separator) ==
    LET i == IndexOf(content, separator)
    IN IF i = 0 THEN <<content>>
       ELSE <<SubSeq(content, 1, i - 1)>>
            \o Split(SubSeq(content, i + Len(separator), Len(content)), separator)

RECURSIVE Join(_, _)
\* Array.prototype.join(separator)
Join(parts, separator) ==
    IF parts = <<>> THEN <<>>
    ELSE IF Len(parts) = 1 THEN parts[1]
    ELSE parts[1] \o separator \o Join(Tail(parts), separator)

RECURSIVE Expand(_, _, _, _)
\* The replacement text of String.prototype.replace with its special patterns
\* filled in: $$ is a dollar sign, $& the matched text and $' the text after the
\* match (a string pattern has no groups, so $1 is itself; the pattern for the
\* text before the match, a dollar sign and a grave accent, is left out: no text
\* here holds a grave accent)
Expand(replacement, match, before, after) ==
    IF replacement = <<>> THEN <<>>
    ELSE IF replacement[1] = "$" /\ Len(replacement) >= 2
                                 /\ replacement[2] \in {"$", "&", "'"}
    THEN (CASE replacement[2] = "$" -> <<"$">>
            [] replacement[2] = "&" -> match
            [] replacement[2] = "'" -> after)
         \o Expand(SubSeq(replacement, 3, Len(replacement)), match, before, after)
    ELSE <<replacement[1]>> \o Expand(Tail(replacement), match, before, after)

\* content.replace(oldStr, newStr) with a string pattern: the first occurrence only
Replace(content, oldStr, newStr) ==
    LET i == IndexOf(content, oldStr)
        before == SubSeq(content, 1, i - 1)
        after == SubSeq(content, i + Len(oldStr), Len(content))
    IN IF i = 0 THEN content
       ELSE before \o Expand(newStr, oldStr, before, after) \o after

\* path.isAbsolute(filePath)
IsAbsolute(filePath) == filePath \in {"/f", "/g", "/d"}

\* validatePath: the message of the Error it throws, or NoError. An Error thrown
\* inside the try block (the file exists for create, the path is a directory) has
\* no code 'ENOENT', so the catch block replaces it.
validatePath(command, filePath, fs) ==
    IF ~IsAbsolute(filePath)
    THEN "The path " \o filePath \o " is not an absolute path, it should start with '/'."
         \o " Maybe you meant /" \o filePath \o "?"
    ELSE IF filePath \in DOMAIN fs
    THEN IF command = "create" \/ (fs[filePath].isDirectory /\ command # "view")
         THEN "The path " \o filePath \o " does not exist. Please provide a valid path."
         ELSE NoError
    ELSE IF command # "create"
    THEN "The path " \o filePath \o " does not exist. Please provide a valid path."
    ELSE NoError

\* What a command leaves: the file system, the history and the message of the
\* ToolError thrown (NoError: a result was returned)
Left(fs, history, error) == [files |-> fs, fileHistory |-> history, error |-> error]

\* fs.writeFile(filePath, content, 'utf8') that succeeds
writeFile(fs, filePath, content) == MapSet(fs, filePath, File(content))

WriteError(filePath) == "Error writing to file " \o filePath \o ": Error: EIO"

\* fileHistory.get(filePath), [] where the Map has no such key
HistoryOf(history, filePath) ==
    IF filePath \in DOMAIN history THEN history[filePath] ELSE <<>>

\* addToHistory(filePath, content)
addToHistory(history, filePath, content) ==
    MapSet(history, filePath, Append(HistoryOf(history, filePath), content))

\* The numbers of the lines of content that include oldStr, as the array prints
LinesIncluding(content, oldStr) ==
    LET lines == Split(content, <<Newline>>)
        numbers == { n \in 1..Len(lines) : IndexOf(lines[n], oldStr) # 0 }
        Printed[n \in 0..Len(lines)] ==
            IF n = 0 THEN ""
            ELSE IF n \notin numbers THEN Printed[n - 1]
            ELSE IF \E m \in numbers : m < n THEN Printed[n - 1] \o "," \o ToString(n)
            ELSE ToString(n)
    IN Printed[Len(lines)]

\* strReplace(filePath, oldStr, newStr)
strReplace(fs, history, filePath, oldStr, newStr, disk) ==
    LET content == fs[filePath].content
        occurrences == Len(Split(content, oldStr)) - 1
        newContent == Replace(content, oldStr, newStr)
    IN IF occurrences = 0
       THEN Left(fs, history,
                 "No replacement was performed, old_str '" \o Text(oldStr)
                 \o "' did not appear verbatim in " \o filePath \o ".")
       ELSE IF occurrences > 1
       THEN Left(fs, history,
                 "No replacement was performed. Multiple occurrences of old_str '"
                 \o Text(oldStr) \o "' in lines " \o LinesIncluding(content, oldStr)
                 \o ". Please ensure it is unique")
       ELSE IF disk = "write fails"
       THEN Left(fs, history, WriteError(filePath))
       ELSE Left(writeFile(fs, filePath, newContent),
                 addToHistory(history, filePath, content), NoError)

\* insert(filePath, insertLine, newStr)
insert(fs, history, filePath, insertLine, newStr, disk) ==
    LET content == fs[filePath].content
        contentLines == Split(content, <<Newline>>)
        nLinesFile == Len(contentLines)
        newStrLines == Split(newStr, <<Newline>>)
        newContentLines == SubSeq(contentLines, 1, insertLine) \o newStrLines
                           \o SubSeq(contentLines, insertLine + 1, nLinesFile)
        newContent == Join(newContentLines, <<Newline>>)
    IN IF insertLine < 0 \/ insertLine > nLinesFile
       THEN Left(fs, history,
                 "Invalid 'insert_line' parameter: " \o ToString(insertLine)
                 \o ". It should be within the range of lines of the file: [0, "
                 \o ToString(nLinesFile) \o "]")
       ELSE IF disk = "write fails"
       THEN Left(fs, history, WriteError(filePath))
       ELSE Left(writeFile(fs, filePath, newContent),
                 addToHistory(history, filePath, content), NoError)

\* undoEdit that reports success when the path has no history left
undoEdit_emptyIsDone(fs, history, filePath, disk) ==
    LET stack == HistoryOf(history, filePath)
    IN IF stack = <<>>
       THEN Left(fs, history, NoError)
       ELSE LET oldText == stack[Len(stack)]
                popped == MapSet(history, filePath, SubSeq(stack, 1, Len(stack) - 1))
            IN IF disk = "write fails"
               THEN Left(fs, popped, WriteError(filePath))
               ELSE Left(writeFile(fs, filePath, oldText), popped, NoError)

\* undoEdit taking the oldest text of the history instead of the newest
undoEdit_oldestFirst(fs, history, filePath, disk) ==
    LET stack == HistoryOf(history, filePath)
    IN IF stack = <<>>
       THEN Left(fs, history, "No edit history found for " \o filePath \o ".")
       ELSE LET oldText == stack[1]
                popped == MapSet(history, filePath, Tail(stack))
            IN IF disk = "write fails"
               THEN Left(fs, popped, WriteError(filePath))
               ELSE Left(writeFile(fs, filePath, oldText), popped, NoError)

\* undoEdit(filePath): history.pop() comes before the write, so a failing write
\* loses the popped text
undoEdit(fs, history, filePath, disk) ==
    LET stack == HistoryOf(history, filePath)
    IN IF stack = <<>>
       THEN Left(fs, history, "No edit history found for " \o filePath \o ".")
       ELSE LET oldText == stack[Len(stack)]
                popped == MapSet(history, filePath, SubSeq(stack, 1, Len(stack) - 1))
            IN IF disk = "write fails"
               THEN Left(fs, popped, WriteError(filePath))
               ELSE Left(writeFile(fs, filePath, oldText), popped, NoError)

\* view(filePath): nothing is written; reading a path that passed validatePath
\* succeeds
view(fs, history, filePath) == Left(fs, history, NoError)

\* !x for an optional text parameter: left out, or the empty string
Missing(params, field) == field \notin DOMAIN params \/ params[field] = <<>>

\* EditTool.execute(params); the messages name the parameter between grave
\* accents, printed as apostrophes here
EditToolExecute(params, fs, history, disk) ==
    LET command == params.command
        filePath == params.path
        invalid == validatePath(command, filePath, fs)
    IN IF invalid # NoError THEN Left(fs, history, invalid)
       ELSE CASE command = "view" -> view(fs, history, filePath)
              [] command = "create" ->
                   IF Missing(params, "file_text")
                   THEN Left(fs, history,
                             "Parameter 'file_text' is required for command: create")
                   ELSE IF disk = "write fails"
                   THEN Left(fs, history, WriteError(filePath))
                   ELSE Left(writeFile(fs, filePath, params.file_text),
                             addToHistory(history, filePath, params.file_text), NoError)
              [] command = "str_replace" ->
                   IF Missing(params, "old_str")
                   THEN Left(fs, history,
                             "Parameter 'old_str' is required for command: str_replace")
                   ELSE strReplace(fs, history, filePath, params.old_str,
                                   IF Missing(params, "new_str") THEN <<>>
                                   ELSE params.new_str, disk)
              [] command = "insert" ->
                   IF "insert_line" \notin DOMAIN params
                   THEN Left(fs, history,
                             "Parameter 'insert_line' is required for command: insert")
                   ELSE IF Missing(params, "new_str")
                   THEN Left(fs, history,
                             "Parameter 'new_str' is required for command: insert")
                   ELSE insert(fs, history, filePath, params.insert_line,
                               params.new_str, disk)
              [] command = "undo_edit" -> undoEdit(fs, history, filePath, disk)
              [] OTHER -> Left(fs, history, "Unrecognized command: " \o command)

\* Paths a command may name: two files, a directory and a relative path
EditPaths == {"/f", "/g", "/d", "f"}

\* Texts the file /f may hold when the EditTool is constructed
InitialTexts == {<<"a">>, <<"a", Newline, "a">>}

\* The paths at which a file is or may be created
FilePaths == {"/f", "/g"}

OfCommand(command, paths) == { [command |-> command, path |-> p] : p \in paths }

\* The params objects of each command; an optional field may be left out. A
\* command is tried on every path with its required fields only, and with its
\* other fields on the file paths.
ViewParams == OfCommand("view", EditPaths)
CreateParams ==
    OfCommand("create", EditPaths)
    \cup { o @@ [file_text |-> <<"b">>] : o \in OfCommand("create", FilePaths) }
StrReplaceParams ==
    OfCommand("str_replace", EditPaths)
    \cup { o @@ [old_str |-> <<"a">>] : o \in OfCommand("str_replace", FilePaths) }
    \cup { o @@ [old_str |-> <<"a">>, new_str |-> t] :
               o \in OfCommand("str_replace", FilePaths), t \in {<<"b">>, <<"$", "&", "b">>} }
InsertParams ==
    OfCommand("insert", EditPaths)
    \cup { o @@ [insert_line |-> 0] : o \in OfCommand("insert", FilePaths) }
    \cup { o @@ [insert_line |-> n, new_str |-> <<"b">>] :
               o \in OfCommand("insert", FilePaths), n \in {1, 9} }
UndoEditParams == OfCommand("undo_edit", EditPaths)

\* Whether fs.writeFile succeeds when the command reaches it
Disks == {"ok", "write fails"}

EditInit ==
    /\ files \in { MapSet(MapSet(EmptyMap, "/d", Directory), "/f", File(text)) :
                       text \in InitialTexts }
    /\ fileHistory = EmptyMap
    /\ response = <<>>
    /\ rejection = NoError
    /\ log = <<>>
    /\ pc = "ready"
    /\ messages = <<>>
    /\ keep = 0
    /\ toolMap = ToolCollectionNew(ToolsOfLoop)
    /\ idx = 1
    /\ toolResultContent = <<>>
    /\ apiCalls = 0

\* What is stored at a path: one file or directory, or nothing
Stat(fs, filePath) == IF filePath \in DOMAIN fs THEN <<fs[filePath]>> ELSE <<>>

\* What execute does, as ToolCollection.run sees it: the result returned (its
\* output cut after the first sentence) or the ToolError thrown
EditOutcome(params, error) ==
    IF error # NoError
    THEN [kind |-> "throw", class |-> "ToolError", message |-> error]
    ELSE [kind |-> "return",
          result |-> [output |->
              CASE params.command = "create" ->
                       "File created successfully at: " \o params.path
                [] params.command = "undo_edit" ->
                       "Last edit to " \o params.path \o " undone successfully. "
                [] params.command = "view" ->
                       "Here's the result of running cat -n on " \o params.path
                [] OTHER -> "The file " \o params.path \o " has been edited. "]]

\* await toolCollection.run('str_replace_editor', params): the EditTool's execute
\* from the call to its result or ToolError, and what run makes of it
EditCommand(params, disk) ==
    /\ pc = "ready"
    /\ Len(log) < MaxEdits
    /\ \E left \in {EditToolExecute(params, files, fileHistory, disk)} :
       LET ran == ToolCollectionRun(toolMap, ToParamsName("EditTool"),
                                    EditOutcome(params, left.error))
       IN
          /\ \A p \in DOMAIN left.files :
                 ~left.files[p].isDirectory => Len(left.files[p].content) <= MaxFileLen
          /\ files' = left.files
          /\ fileHistory' = left.fileHistory
          /\ rejection' = left.error
          /\ response' = <<[params |-> params, kind |-> ran.kind,
                            result |-> IF ran.kind = "return" THEN ran.result
                                       ELSE ToolFailure(ran.error),
                            filesBefore |-> files, historyBefore |-> fileHistory]>>
          /\ log' = IF left.files = files /\ left.fileHistory = fileHistory THEN log
                    ELSE Append(log, [ev |-> params.command, path |-> params.path,
                                      before |-> Stat(files, params.path),
                                      after |-> Stat(left.files, params.path),
                                      error |-> left.error])
          /\ UNCHANGED <<messages, keep, toolMap, pc, idx, toolResultContent, apiCalls>>

\* The disks a command is tried with: a failing write only where the command
\* names a file path, since no other command reaches writeFile
DisksFor(params) == IF params.path \in FilePaths THEN Disks ELSE {"ok"}

View == \E params \in ViewParams : EditCommand(params, "ok")
Create == \E params \in CreateParams : \E disk \in DisksFor(params) : EditCommand(params, disk)
StrReplace ==
    \E params \in StrReplaceParams : \E disk \in DisksFor(params) : EditCommand(params, disk)
Insert == \E params \in InsertParams : \E disk \in DisksFor(params) : EditCommand(params, disk)
UndoEdit ==
    \E params \in UndoEditParams : \E disk \in DisksFor(params) : EditCommand(params, disk)

EditNext == View \/ Create \/ StrReplace \/ Insert \/ UndoEdit

EditSpec == EditInit /\ [][EditNext]_vars

----------------------------------------------------------------------------

(* Reading the conversation and the event log *)

Last(seq) == seq[Len(seq)]

RECURSIVE ToolUseIds(_)
\* ids of the tool_use blocks of a content, in content order
ToolUseIds(blocks) ==
    IF blocks = <<>> THEN <<>>
    ELSE (IF Head(blocks).type = "tool_use" THEN <<Head(blocks).id>> ELSE <<>>)
         \o ToolUseIds(Tail(blocks))

RECURSIVE ToolResultIds(_)
\* tool_use_id of the tool_result blocks of a content, in content order
ToolResultIds(blocks) ==
    IF blocks = <<>> THEN <<>>
    ELSE (IF Head(blocks).type = "tool_result" THEN <<Head(blocks).tool_use_id>> ELSE <<>>)
         \o ToolResultIds(Tail(blocks))

Range(seq) == {seq[i] : i \in 1..Len(seq)}

Occurrences(seq, x) == Cardinality({i \in 1..Len(seq) : seq[i] = x})

\* An assistant message that requests tool uses
RequestsTools(m) == m.role = "assistant" /\ ToolUseIds(ItemsOf(m.content)) # <<>>

\* Positions of assistant messages with tool uses that have a successor
AnsweredTurns == {i \in 1..(Len(messages) - 1) : RequestsTools(messages[i])}

EventsOf(kind) == SelectSeq(log, LAMBDA e : e.ev = kind)

----------------------------------------------------------------------------
(* Claims *)

\* C1: every assistant message with tool_use blocks that has a successor is
\* followed by a user message holding exactly one tool_result per tool_use block,
\* with that block's id, and no tool_result with any other id; and while a
\* service call is in flight no assistant message with tool_use blocks is
\* unanswered.
C1_Correlation ==
    /\ \A i \in AnsweredTurns :
          LET uses == ToolUseIds(ItemsOf(messages[i].content))
              answers == ToolResultIds(ItemsOf(messages[i + 1].content))
          IN /\ messages[i + 1].role = "user"
             /\ \A id \in Range(uses) : Occurrences(answers, id) = Occurrences(uses, id)
             /\ Range(answers) \subseteq Range(uses)
    /\ pc = "call" => ~RequestsTools(Last(messages))

\* C1 witness: a response with two tool uses has been answered and the next
\* service call is in flight
C1_Witness ==
    /\ pc = "call"
    /\ \E i \in AnsweredTurns :
          /\ ToolUseIds(ItemsOf(messages[i].content))[1] = <<1, 1>>
          /\ Len(ToolUseIds(ItemsOf(messages[i].content))) = 2
          /\ Len(ToolResultIds(ItemsOf(messages[i + 1].content))) = 2

\* Contents of the responses received so far, in order
ResponsesReceived ==
    LET evs == EventsOf("apiResponseCallback")
    IN [i \in 1..Len(evs) |-> evs[i].content]

NoToolUse(content) == ToolUseIds(content) = <<>>

\* C2: once a response without tool_use blocks has been received, run eventually
\* returns; and run has returned only if some response received had no tool_use
\* block (so it never returns while every response holds one).
C2_Termination ==
    /\ (pc = "block" /\ NoToolUse(response)) ~> (pc = "returned")
    /\ [](pc = "returned" => \E i \in 1..Len(ResponsesReceived) :
                                 NoToolUse(ResponsesReceived[i]))

\* C2 witness: run has returned on its third response, after two responses with
\* tool uses
C2_Witness ==
    /\ pc = "returned"
    /\ Len(ResponsesReceived) = 3
    /\ ~NoToolUse(ResponsesReceived[1])
    /\ ~NoToolUse(ResponsesReceived[2])

\* C3: run has returned only with the last message being the assistant message of
\* the response just processed, which has no tool_use block; a response without
\* tool_use blocks is the last response received, and no service call is issued
\* after it.
C3_SoleTermination ==
    /\ pc = "returned" =>
          /\ Last(messages) = [role |-> "assistant", content |-> Arr(response)]
          /\ NoToolUse(response)
          /\ idx = Len(response) + 1
    /\ \A i \in 1..Len(log) :
          (log[i].ev = "apiResponseCallback" /\ NoToolUse(log[i].content)) =>
              /\ pc \in {"block", "returned"}
              /\ \A j \in (i + 1)..Len(log) :
                    log[j].ev \notin {"create", "apiResponseCallback", "createFailed"}

\* C3 witness: run has returned on a second response that holds only text blocks
C3_Witness ==
    /\ pc = "returned"
    /\ Len(ResponsesReceived) = 2
    /\ Len(response) = 2
    /\ NoToolUse(response)

\* C4 (as claimed): with keep non-zero, whenever a service call is in flight the
\* conversation sent with it holds at most keep + (minRemovalBatch - 1) images
\* inside tool_result blocks.
C4_BoundAtEveryCall ==
    (pc = "call" /\ keep # 0) =>
        TotalImages(messages) <= keep + (DefaultMinRemovalThreshold - 1)

\* The event that follows the run event of request id: its toolOutputCallback,
\* or the execute event when the tool was executed
RunPositions == {i \in 1..Len(log) : log[i].ev = "run"}

\* The result ToolCollection.run gave for the run event at position i, once the
\* dispatch has completed
DispatchDone(i) ==
    \E j \in (i + 1)..Len(log) : log[j].ev = "toolOutputCallback" /\ log[j].toolId = log[i].id

DispatchResult(i) ==
    LET j == CHOOSE j \in (i + 1)..Len(log) :
                 log[j].ev = "toolOutputCallback" /\ log[j].toolId = log[i].id
    IN log[j].result

\* The dispatch of the run event at position i is an effector failure: the name
\* is not registered, or execute was called and threw
EffectorFailed(i) ==
    \/ log[i].name \notin DOMAIN toolMap
    \/ /\ i < Len(log)
       /\ log[i + 1].ev = "execute"
       /\ log[i + 1].outcome.kind = "throw"

\* All tool_result blocks run has assembled: those in appended user messages and
\* those of the iteration in progress
AssembledResults ==
    UNION { Range(ItemsOf(messages[i + 1].content)) : i \in AnsweredTurns }
    \cup Range(toolResultContent)

ResultFor(id) == CHOOSE b \in AssembledResults : b.tool_use_id = id

Answered(id) == \E b \in AssembledResults : b.tool_use_id = id

\* C5 (as claimed): every effector failure (unknown name, ToolError thrown, any
\* other error thrown, whatever its message) leaves run going and is answered by
\* a tool_result with is_error = TRUE for that request.
C5_FailureIsError ==
    \A i \in RunPositions :
        EffectorFailed(i) =>
            /\ rejection = NoError \/ Last(log).ev = "createFailed"
            /\ DispatchDone(i)
            /\ Answered(log[i].id)
            /\ ResultFor(log[i].id).is_error = TRUE

\* C6: run has rejected only through a failed service call: the rejection is a
\* service error and the failed create call is the last thing that happened; no
\* dispatch, whatever the tool did, has made run reject.
C6_OnlyServiceFailureRejects ==
    /\ (pc = "failed" \/ rejection # NoError) =>
          /\ pc = "failed"
          /\ rejection \in ServiceErrors
          /\ Last(log).ev = "createFailed"
    /\ \A i \in RunPositions : DispatchDone(i)

\* C6 witness: run has rejected on its second service call after a tool threw an
\* error that is not a ToolError during the first turn
C6_Witness ==
    /\ pc = "failed"
    /\ \E i \in RunPositions :
          /\ i < Len(log)
          /\ log[i + 1].ev = "execute"
          /\ log[i + 1].outcome.kind = "throw"
          /\ log[i + 1].outcome.class = "Error"

\* C7: a failed service call makes run reject at once with the service's error:
\* the failure is the last event, the conversation is the one sent with the failing
\* call, and nothing changes any more once run has rejected.
C7_ServiceFailureAborts ==
    /\ [](\A i \in 1..Len(log) :
             log[i].ev = "createFailed" =>
                 /\ i = Len(log)
                 /\ pc = "failed"
                 /\ rejection = log[i].error)
    /\ [][ /\ (pc = "call" /\ pc' = "failed") => messages' = messages
           /\ pc = "failed" => UNCHANGED vars ]_vars

\* C7 witness: the second service call has failed, after a first turn appended an
\* assistant message and a user message
C7_Witness ==
    /\ pc = "failed"
    /\ apiCalls = 2
    /\ Last(log) = [ev |-> "createFailed", error |-> rejection]
    /\ Last(messages).role = "user"

RECURSIVE Flatten(_)
Flatten(seqs) == IF seqs = <<>> THEN <<>> ELSE Head(seqs) \o Flatten(Tail(seqs))

\* Request ids in the order ToolCollection.run was called during the run
RunIds == LET evs == EventsOf("run") IN [i \in 1..Len(evs) |-> evs[i].id]

\* The tool_use ids of all responses received, in response order and block order;
\* of the response in progress only the blocks the for loop has passed
RequestedIds ==
    LET all == ResponsesReceived
        n == Len(all)
    IN IF pc = "block"
       THEN Flatten([i \in 1..(n - 1) |-> ToolUseIds(all[i])])
            \o ToolUseIds(SubSeq(response, 1, idx - 1))
       ELSE Flatten([i \in 1..n |-> ToolUseIds(all[i])])

\* C8: tool uses are dispatched in the order of their blocks in the response, and
\* the tool_result blocks of the user message appended afterwards are in the order
\* of their tool_use blocks.
C8_Order ==
    /\ RunIds = RequestedIds
    /\ pc = "block" =>
          ToolResultIds(toolResultContent) = ToolUseIds(SubSeq(response, 1, idx - 1))
    /\ \A i \in AnsweredTurns :
          ToolResultIds(ItemsOf(messages[i + 1].content))
              = ToolUseIds(ItemsOf(messages[i].content))

\* C8 witness: a response whose first and third block are tool uses, with a text
\* block in between, has been dispatched and answered
C8_Witness ==
    /\ Len(RunIds) = 2
    /\ \E i \in AnsweredTurns :
          /\ ToolUseIds(ItemsOf(messages[i].content))[1] = <<1, 1>>
          /\ Len(ItemsOf(messages[i].content)) = 3
          /\ ToolResultIds(ItemsOf(messages[i + 1].content)) = <<<<1, 1>>, <<1, 3>>>>

\* C9: when the dispatch of a tool_use block has failed, every later tool_use block
\* of the same response is still dispatched and answered: once the for loop has
\* ended, each tool_use block of the response has one run event and one
\* tool_result, also those after a failed one.
C9_FailureDoesNotStopLoop ==
    \A i \in RunPositions :
        (EffectorFailed(i) /\ (pc # "block" \/ idx > Len(response))) =>
            \A k \in 1..Len(response) :
                (/\ response[k].type = "tool_use"
                 /\ response[k].id[1] = log[i].id[1]
                 /\ response[k].id[2] > log[i].id[2]) =>
                    /\ Occurrences(RunIds, response[k].id) = 1
                    /\ Answered(response[k].id)

\* C9 witness: the first of two tool uses of a response failed and the second has
\* been dispatched and answered with a screenshot
C9_Witness ==
    /\ pc = "call"
    /\ \E i \in RunPositions :
          /\ EffectorFailed(i)
          /\ log[i].id = <<1, 1>>
          /\ Answered(<<1, 2>>)
          /\ ResultFor(<<1, 2>>).is_error = FALSE
          /\ CountImages(ItemsOf(ResultFor(<<1, 2>>).content)) = 1

\* Run events that name a tool that is not registered
UnknownNameRuns == {i \in RunPositions : log[i].name \notin DOMAIN toolMap}

\* C10 (as claimed): dispatching a name that is not registered returns a failure
\* result whose error text is "<name> is invalid".
C10_Original ==
    \A i \in UnknownNameRuns :
        /\ DispatchDone(i)
        /\ Truthy(DispatchResult(i), "error")
        /\ DispatchResult(i).error = log[i].name \o " is invalid"

\* C10 (amended): dispatching a name that is not registered returns, without
\* raising, a failure result whose error text is "Tool <name> is invalid"; no tool
\* is executed; the tool_result assembled from it has is_error = TRUE and that text.
C10_UnknownTool ==
    \A i \in UnknownNameRuns :
        /\ DispatchDone(i)
        /\ DispatchResult(i) = [error |-> "Tool " \o log[i].name \o " is invalid"]
        /\ log[i + 1].ev = "toolOutputCallback"
        /\ Answered(log[i].id)
        /\ ResultFor(log[i].id).is_error = TRUE
        /\ ResultFor(log[i].id).content
               = Arr(<<TextBlock("Tool " \o log[i].name \o " is invalid")>>)

\* C10 witness: "missing" has been dispatched and answered with the error text
\* "Tool missing is invalid"
C10_Witness ==
    \E i \in UnknownNameRuns :
        /\ log[i].name = "missing"
        /\ DispatchResult(i).error = "Tool missing is invalid"
        /\ \A j \in 1..Len(log) : log[j].ev # "execute"

\* Positions of the execute events where the tool threw
ThrowPositions ==
    {i \in 1..Len(log) : log[i].ev = "execute" /\ log[i].outcome.kind = "throw"}

\* C11: no exception of a registered tool's execute escapes ToolCollection.run:
\* the dispatch completes at once with a failure result for the same request, and
\* run has not rejected with it. The result's error is the exception's message
\* for a ToolError, and "Unknown error: " followed by the error's name and message
\* for any other class.
C11_NoExceptionEscapes ==
    \A i \in ThrowPositions :
        LET thrown == log[i].outcome
        IN /\ i < Len(log)
           /\ log[i - 1].ev = "run"
           /\ log[i + 1].ev = "toolOutputCallback"
           /\ log[i + 1].toolId = log[i - 1].id
           /\ log[i + 1].result =
                 ToolFailure(IF thrown.class = "ToolError"
                             THEN thrown.message
                             ELSE "Unknown error: " \o thrown.class \o ": " \o thrown.message)
           /\ rejection \notin {thrown.message, ErrToString(thrown.class, thrown.message)}

\* C11 witness: in one run a tool has thrown a ToolError and a tool has thrown an
\* Error, and both dispatches returned a failure result
C11_Witness ==
    /\ \E i \in ThrowPositions :
          /\ log[i].outcome.class = "ToolError"
          /\ log[i + 1].result = [error |-> "text is required for key"]
    /\ \E i \in ThrowPositions :
          /\ log[i].outcome.class = "Error"
          /\ log[i + 1].result = [error |-> "Unknown error: Error: boom"]

----------------------------------------------------------------------------
(* Claims about filterNMostRecentImages, read off the last filter event *)

\* A call of the filter has completed: messages is the conversation it left
Filtered == pc \in {"filtered", "refiltered"}

Before == Last(log).before
KeepArg == Last(log).imagesToKeep
BatchArg == Last(log).minRemovalThreshold
PriorCount == TotalImages(Before)
PostCount == TotalImages(messages)
Removed == PriorCount - PostCount

Max(a, b) == IF a >= b THEN a ELSE b

\* C12 (as claimed): after one application the image count is at most
\* max(keep, priorCount), the number removed is a non-negative multiple of the
\* batch, and the number removed is at most priorCount - keep.
C12_Original ==
    Filtered =>
        /\ PostCount <= Max(KeepArg, PriorCount)
        /\ Removed >= 0
        /\ Removed % BatchArg = 0
        /\ Removed <= PriorCount - KeepArg

\* C12 (amended): after one application the image count is at most
\* max(keep, priorCount), the number removed is a non-negative multiple of the
\* batch, and the number removed is at most the excess max(0, priorCount - keep).
C12_TrimmerBound ==
    Filtered =>
        /\ PostCount <= Max(KeepArg, PriorCount)
        /\ Removed >= 0
        /\ Removed % BatchArg = 0
        /\ Removed <= Max(0, PriorCount - KeepArg)

\* C12 witness: one application with keep = 2 and batch 3 on 9 images has removed
\* 6 of the excess of 7
C12_Witness ==
    /\ pc = "filtered"
    /\ KeepArg = 2
    /\ BatchArg = 3
    /\ PriorCount = 9
    /\ PostCount = 3

\* C13: after one application at most keep + (batch - 1) images remain inside
\* tool_result blocks; at least keep remain when there were at least keep before;
\* with fewer than keep before, the conversation is left as it was. 25 images with
\* keep = 10 and batch 10 leave 15; 5 images with keep = 10 leave 5.
C13_RemainingImages ==
    Filtered =>
        /\ PostCount <= KeepArg + (BatchArg - 1)
        /\ PriorCount >= KeepArg => PostCount >= KeepArg
        /\ PriorCount < KeepArg => messages = Before
        /\ (PriorCount = 25 /\ KeepArg = 10 /\ BatchArg = 10) => PostCount = 15
        /\ (PriorCount = 5 /\ KeepArg = 10) => PostCount = 5

\* C13 witness: 25 images with keep = 10 and batch 10 have been trimmed to 15
C13_Witness ==
    /\ pc = "filtered"
    /\ PriorCount = 25
    /\ KeepArg = 10
    /\ BatchArg = 10
    /\ PostCount = 15

\* C14: a second application with the same keep and batch, right after the first,
\* leaves the conversation exactly as the first application left it.
C14_Idempotent ==
    pc = "refiltered" =>
        /\ log[2].imagesToKeep = log[1].imagesToKeep
        /\ log[2].minRemovalThreshold = log[1].minRemovalThreshold
        /\ messages = log[2].before

\* C14 witness: the first application removed images and left more than keep of
\* them, and the second application has run
C14_Witness ==
    /\ pc = "refiltered"
    /\ TotalImages(log[1].before) > TotalImages(log[2].before)
    /\ TotalImages(log[2].before) > KeepArg
    /\ messages = log[2].before

\* Number of tool_result images of msgs that come before item k of block j of
\* message i, in message order, then block order, then item order
ImagesAhead(msgs, i, j, k) ==
    TotalImages(SubSeq(msgs, 1, i - 1))
    + BlockImages(SubSeq(ItemsOf(msgs[i].content), 1, j - 1))
    + CountImages(SubSeq(ItemsOf(ItemsOf(msgs[i].content)[j].content), 1, k - 1))

RECURSIVE KeepAt(_, _, _)
\* The items of a sequence at the positions in S, from position k on, in order
KeepAt(items, S, k) ==
    IF k > Len(items) THEN <<>>
    ELSE (IF k \in S THEN <<items[k]>> ELSE <<>>) \o KeepAt(items, S, k + 1)

\* C15: when r images have been removed, every tool_result content is its former
\* content without the images among the first r image occurrences of the
\* conversation (message order, then block order, then item order): later images
\* and all other items are kept, in their former order.
C15_OldestFirst ==
    Filtered =>
        /\ Len(messages) = Len(Before)
        /\ \A i \in 1..Len(Before) :
              LET old == ItemsOf(Before[i].content)
                  new == ItemsOf(messages[i].content)
              IN /\ Len(new) = Len(old)
                 /\ \A j \in 1..Len(old) :
                       (IsToolResult(old[j]) /\ ArrayIsArray(old[j].content)) =>
                           LET items == old[j].content.arr
                               kept == {k \in 1..Len(items) :
                                           \/ ~IsImage(items[k])
                                           \/ ImagesAhead(Before, i, j, k) >= Removed}
                           IN new[j].content = Arr(KeepAt(items, kept, 1))

\* C15 witness: of the three images of one message the first has been removed; the
\* second, in the same tool_result, and the third are kept
C15_Witness ==
    /\ pc = "filtered"
    /\ Before = <<TrimMessage("mixed", 1)>>
    /\ Removed = 1
    /\ ItemsOf(ItemsOf(messages[1].content)[1].content)
           = <<TextBlock("a"), ImageBlock("image/png", "img113")>>
    /\ ItemsOf(messages[1].content)[3] = ItemsOf(Before[1].content)[3]

NonImages(items) == SelectSeq(items, LAMBDA item : ~IsImage(item))

\* C16: an application of the filter leaves the number and order of the messages,
\* every role, every string content and every block that is not a tool_result
\* (text, tool_use, image outside a tool_result) as they were; of a tool_result it
\* leaves the tool_use_id, the is_error flag and the items that are not images,
\* in their order.
C16_Frame ==
    Filtered =>
        /\ Len(messages) = Len(Before)
        /\ \A i \in 1..Len(Before) :
              LET old == ItemsOf(Before[i].content)
                  new == ItemsOf(messages[i].content)
              IN /\ messages[i].role = Before[i].role
                 /\ ArrayIsArray(messages[i].content) = ArrayIsArray(Before[i].content)
                 /\ ~ArrayIsArray(Before[i].content) => messages[i] = Before[i]
                 /\ Len(new) = Len(old)
                 /\ \A j \in 1..Len(old) :
                       IF IsToolResult(old[j]) /\ ArrayIsArray(old[j].content)
                       THEN /\ [new[j] EXCEPT !.content = old[j].content] = old[j]
                            /\ ArrayIsArray(new[j].content)
                            /\ NonImages(new[j].content.arr) = NonImages(old[j].content.arr)
                       ELSE new[j] = old[j]

\* C16 witness: all three tool_result images of a conversation have been removed;
\* the assistant message with its tool_use block and the user message with an
\* image of its own are as before
C16_Witness ==
    /\ pc = "filtered"
    /\ Before = <<TrimMessage("request", 1), TrimMessage("mixed", 2),
                  TrimMessage("upload", 3)>>
    /\ Removed = 3
    /\ messages[1] = Before[1]
    /\ messages[3] = Before[3]
    /\ CountImages(ItemsOf(messages[3].content)) = 1

----------------------------------------------------------------------------
(* Claims about makeApiToolResult, read off the assembled block *)

Assembled == pc = "assembled"

\* The ToolResult handed to makeApiToolResult and the block it built
Given == Last(log).result
Built == toolResultContent[1]

\* The system note wrapper put before a text, when the note is not empty
SystemPrefix(result) ==
    IF "system" \in DOMAIN result /\ result.system # ""
    THEN "<system>" \o result.system \o "</system>\n"
    ELSE ""

\* C17 (as claimed): a result whose error is set, to whatever text, is assembled
\* into a block with is_error = TRUE whose content is exactly one text block
\* holding the error text after the system note, whatever output and image are.
C17_ErrorSet ==
    (Assembled /\ "error" \in DOMAIN Given) =>
        /\ Built.is_error = TRUE
        /\ Built.content = Arr(<<TextBlock(SystemPrefix(Given) \o Given.error)>>)

\* Positions of the blocks of one type in a content
PositionsOf(items, type) == {k \in 1..Len(items) : items[k].type = type}

\* C18 (as claimed): a result without error is assembled into a block with
\* is_error = FALSE whose content holds a text block iff output is set and an image
\* block iff base64Image is set, the text block first; with neither set the content
\* is empty. The block's tool_use_id is the id of the request, for every result.
C18_Original ==
    Assembled =>
        /\ Built.tool_use_id = response[1].id
        /\ "error" \notin DOMAIN Given =>
              LET items == Built.content.arr
                  texts == PositionsOf(items, "text")
                  images == PositionsOf(items, "image")
              IN /\ Built.is_error = FALSE
                 /\ texts # {} <=> "output" \in DOMAIN Given
                 /\ images # {} <=> "base64Image" \in DOMAIN Given
                 /\ \A t \in texts : \A i \in images : t < i
                 /\ texts \cup images = 1..Len(items)

\* C18 (amended): a result without error is assembled into a block with
\* is_error = FALSE whose content holds one text block, with the output after the
\* system note, iff output is set and not empty, and one image block, with the
\* image data, iff base64Image is set and not empty, the text block first; with
\* neither the content is empty. The block's tool_use_id is the id of the request,
\* for every result.
C18_NoError ==
    Assembled =>
        /\ Built.tool_use_id = response[1].id
        /\ Built.type = "tool_result"
        /\ "error" \notin DOMAIN Given =>
              LET items == Built.content.arr
                  texts == PositionsOf(items, "text")
                  images == PositionsOf(items, "image")
                  hasOutput == "output" \in DOMAIN Given /\ Given.output # ""
                  hasImage == "base64Image" \in DOMAIN Given /\ Given.base64Image # ""
              IN /\ Built.is_error = FALSE
                 /\ Cardinality(texts) = IF hasOutput THEN 1 ELSE 0
                 /\ Cardinality(images) = IF hasImage THEN 1 ELSE 0
                 /\ \A t \in texts : items[t].text = SystemPrefix(Given) \o Given.output
                 /\ \A i \in images : items[i].source.data = Given.base64Image
                 /\ \A t \in texts : \A i \in images : t < i
                 /\ texts \cup images = 1..Len(items)

\* C18 witness: a result with output "hi" and an image, without error, has been
\* assembled into a text block followed by an image block
C18_Witness ==
    /\ Assembled
    /\ "error" \notin DOMAIN Given
    /\ "output" \in DOMAIN Given
    /\ "base64Image" \in DOMAIN Given
    /\ Len(Built.content.arr) = 2
    /\ Built.content.arr[1] = TextBlock("hi")
    /\ Built.content.arr[2].type = "image"
    /\ Built.is_error = FALSE

----------------------------------------------------------------------------
(* Claims about the conversation run returns *)

\* The conversation passed to run as it is when the first service call is
\* issued: trimmed once when onlyNMostRecentImages is set
AtEntry(seed) ==
    IF keep # 0 THEN filterNMostRecentImages(seed, keep, DefaultMinRemovalThreshold)
    ELSE seed

\* C19: when run has returned after k responses, the conversation is the one
\* passed to run (as trimmed on entry) followed by exactly 2k - 1 messages: the
\* assistant message of each response in turn, each but the last followed by a
\* user message that holds tool_result blocks only, and the last message is an
\* assistant message without tool_use block. With a seed of one user message and
\* two responses that makes 4 messages.
C19_ReturnedConversation ==
    pc = "returned" =>
        LET k == Len(ResponsesReceived)
            seedLen == Len(messages) - (2 * k - 1)
        IN /\ k >= 1
           /\ seedLen >= 1
           /\ LET head == SubSeq(messages, 1, seedLen)
                  n == IF seedLen = 1 THEN 0 ELSE Len(ItemsOf(head[2].content))
              IN /\ n \in SeedCounts
                 /\ head = AtEntry(SeedConversation(n))
           /\ \A t \in 1..k :
                 messages[seedLen + 2 * t - 1]
                     = [role |-> "assistant", content |-> Arr(ResponsesReceived[t])]
           /\ \A t \in 1..(k - 1) :
                 LET answer == messages[seedLen + 2 * t]
                 IN /\ answer.role = "user"
                    /\ ItemsOf(answer.content) # <<>>
                    /\ \A b \in Range(ItemsOf(answer.content)) : b.type = "tool_result"
           /\ Last(messages).role = "assistant"
           /\ NoToolUse(ItemsOf(Last(messages).content))
           /\ (k = 2 /\ seedLen = 1) => Len(messages) = 4

\* C19 witness: a run seeded with one user message has returned after two
\* responses with 4 messages: user, assistant, user with a tool_result, assistant
C19_Witness ==
    /\ pc = "returned"
    /\ Len(ResponsesReceived) = 2
    /\ Len(messages) = 4
    /\ messages[1].role = "user"
    /\ messages[2].role = "assistant"
    /\ ToolResultIds(ItemsOf(messages[3].content)) = <<<<1, 1>>>>
    /\ messages[4].role = "assistant"

\* new is old with nothing changed but images taken out of the array contents of
\* its tool_result blocks
OnlyImagesRemoved(old, new) ==
    /\ new.role = old.role
    /\ ArrayIsArray(old.content)
    /\ ArrayIsArray(new.content)
    /\ Len(new.content.arr) = Len(old.content.arr)
    /\ \A j \in 1..Len(old.content.arr) :
          LET o == old.content.arr[j]
              n == new.content.arr[j]
          IN \/ n = o
             \/ /\ IsToolResult(o)
                /\ ArrayIsArray(o.content)
                /\ [n EXCEPT !.content = o.content] = o
                /\ ArrayIsArray(n.content)
                /\ NonImages(n.content.arr) = NonImages(o.content.arr)
                /\ CountImages(n.content.arr) < CountImages(o.content.arr)

\* C20: every step of run leaves the messages already in the conversation in
\* place and in order, each one as it was or with nothing but images removed from
\* its tool_result contents; and the step that receives a response appends one
\* assistant message whose content is the response's content, block for block.
C20_AppendOnly ==
    [][ /\ Len(messages') >= Len(messages)
        /\ \A i \in 1..Len(messages) :
              \/ messages'[i] = messages[i]
              \/ OnlyImagesRemoved(messages[i], messages'[i])
        /\ (pc = "call" /\ pc' = "block") =>
              messages' = Append(messages, [role |-> "assistant",
                                            content |-> Arr(log'[Len(log')].content)])
      ]_vars

\* C20 witness: the seed of 2 * SeedImages screenshots was trimmed on entry, and
\* an assistant message and a user message have been appended after it
C20_Witness ==
    /\ pc = "call"
    /\ Len(messages) = 5
    /\ Len(ItemsOf(messages[2].content)) = 2 * SeedImages
    /\ TotalImages(SubSeq(messages, 1, 3)) < 2 * SeedImages
    /\ messages[4].role = "assistant"
    /\ messages[5].role = "user"

----------------------------------------------------------------------------
(* Claims about the observer callbacks and the order of dispatches *)

\* The blocks outputCallback has been called with, in call order
ObservedBlocks == LET evs == EventsOf("outputCallback") IN [i \in 1..Len(evs) |-> evs[i].block]

\* The blocks the for loop has passed: all blocks of the earlier responses, and of
\* the response in progress those before idx
BlocksPassed ==
    LET all == ResponsesReceived
        n == Len(all)
    IN IF pc = "block"
       THEN Flatten([i \in 1..(n - 1) |-> all[i]]) \o SubSeq(response, 1, idx - 1)
       ELSE Flatten(all)

\* C21: outputCallback has been called exactly once with every block the for
\* loop has passed, of whatever type, in the order of the blocks in their
\* response and response after response; so once a response is processed each of
\* its blocks has been observed once, before any block of the next response.
C21_EveryBlockObserved ==
    /\ ObservedBlocks = BlocksPassed
    /\ (pc # "block" \/ idx > Len(response)) => ObservedBlocks = Flatten(ResponsesReceived)

\* C21 witness: run has returned after a response of a text block and a tool_use
\* block and a response of one text block, and all three blocks were observed
C21_Witness ==
    /\ pc = "returned"
    /\ Len(ResponsesReceived) = 2
    /\ Len(ObservedBlocks) = 3
    /\ ObservedBlocks[1].type = "text"
    /\ ObservedBlocks[2] = ToolUseBlock(<<1, 2>>, "computer")
    /\ ObservedBlocks[3] = ResponsesReceived[2][1]

\* Positions of the toolOutputCallback events for request id
CallbacksFor(id) ==
    {j \in 1..Len(log) : log[j].ev = "toolOutputCallback" /\ log[j].toolId = id}

\* C22: for every dispatch, toolOutputCallback has been called exactly once with
\* the request's id and the result the dispatch gave (the tool's own result when
\* the tool returned one); the call comes right after the dispatch (after the
\* execute event when the tool was executed), so before the next block is observed
\* or dispatched; and while the for loop is at work the last message is still the
\* assistant message, so the user message with the results comes after the calls.
\* No other toolOutputCallback occurs.
C22_ResultObservedOnce ==
    /\ \A i \in RunPositions :
          LET done == IF i < Len(log) /\ log[i + 1].ev = "execute" THEN i + 2 ELSE i + 1
          IN /\ CallbacksFor(log[i].id) = {done}
             /\ (done > i + 1 /\ log[i + 1].outcome.kind = "return") =>
                    log[done].result = log[i + 1].outcome.result
             /\ done > i + 1 \/ log[done].result = ToolFailure("Tool " \o log[i].name \o " is invalid")
    /\ Len(EventsOf("toolOutputCallback")) = Cardinality(RunPositions)
    /\ pc = "block" =>
          /\ Last(messages) = [role |-> "assistant", content |-> Arr(response)]
          /\ [k \in 1..Len(toolResultContent) |-> toolResultContent[k].tool_use_id]
                 = [k \in 1..Len(toolResultContent) |->
                        EventsOf("toolOutputCallback")[
                            Len(EventsOf("toolOutputCallback")) - Len(toolResultContent) + k].toolId]

\* C22 witness: two tool uses of one response have been dispatched, the first one
\* failed on an unregistered name, and each result was observed before the next
\* block
C22_Witness ==
    /\ pc = "call"
    /\ Len(EventsOf("run")) = 2
    /\ \E i \in RunPositions :
          /\ log[i].id = <<1, 1>>
          /\ log[i + 1] = [ev |-> "toolOutputCallback",
                           result |-> [error |-> "Tool missing is invalid"],
                           toolId |-> <<1, 1>>]
          /\ log[i + 2].ev = "outputCallback"
          /\ log[i + 2].block.id = <<1, 2>>

\* Number of messages of the conversation passed to run: the user's request alone,
\* or followed by the earlier exchange, whose tool_use ids belong to call 0
SeedLen ==
    IF /\ Len(messages) >= 3
       /\ ItemsOf(messages[2].content) # <<>>
       /\ ItemsOf(messages[2].content)[1].type = "tool_use"
       /\ ItemsOf(messages[2].content)[1].id[1] = 0
    THEN 3 ELSE 1

\* The assistant messages run has appended, in order
AppendedAssistant ==
    SelectSeq(SubSeq(messages, SeedLen + 1, Len(messages)),
              LAMBDA m : m.role = "assistant")

\* C23: every create call that has completed is followed at once by exactly one
\* event: apiResponseCallback with the response when it succeeded, createFailed
\* and no apiResponseCallback when it failed; apiResponseCallback happens nowhere
\* else, and its calls match the assistant messages appended one to one, each
\* carrying the content of its message.
C23_ResponseObservedOnce ==
    LET observed == ResponsesReceived
        appended == AppendedAssistant
    IN /\ \A i \in 1..Len(log) :
             /\ (log[i].ev = "create" /\ i < Len(log)) =>
                    log[i + 1].ev \in {"apiResponseCallback", "createFailed"}
             /\ log[i].ev = "apiResponseCallback" => (i > 1 /\ log[i - 1].ev = "create")
             /\ log[i].ev = "createFailed" => (i > 1 /\ log[i - 1].ev = "create")
       /\ Len(observed) = Len(appended)
       /\ Len(observed) + Len(EventsOf("createFailed"))
              = Len(EventsOf("create")) - (IF pc = "call" THEN 1 ELSE 0)
       /\ \A t \in 1..Len(appended) : appended[t].content = Arr(observed[t])

\* C23 witness: of three service calls two succeeded and the third failed; two
\* assistant messages were appended to a seed of three messages
C23_Witness ==
    /\ pc = "failed"
    /\ SeedLen = 3
    /\ Len(EventsOf("create")) = 3
    /\ Len(EventsOf("apiResponseCallback")) = 2
    /\ Len(AppendedAssistant) = 2
    /\ Last(log).ev = "createFailed"

\* C24: a dispatch is in flight from its run event to its toolOutputCallback
\* event. Between the two there is no other run event and no create event: every
\* run event and every create event comes after the completion of every dispatch
\* started before it; and while a create call is in flight no dispatch is.
C24_OneAtATime ==
    /\ \A i \in RunPositions :
          \A j \in (i + 1)..Len(log) :
              log[j].ev \in {"run", "create"} =>
                  \E c \in (i + 1)..(j - 1) :
                      log[c].ev = "toolOutputCallback" /\ log[c].toolId = log[i].id
    /\ pc = "call" =>
          /\ Last(log).ev = "create"
          /\ \A i \in RunPositions : DispatchDone(i)

\* C24 witness: three tool uses of one response have been dispatched one after the
\* other and the next service call is in flight
C24_Witness ==
    /\ pc = "call"
    /\ apiCalls = 2
    /\ RunIds = <<<<1, 1>>, <<1, 2>>, <<1, 3>>>>
    /\ Len(EventsOf("execute")) = 3

\* C25: every tool_use block the for loop has passed has caused exactly one
\* ToolCollection.run call and at most one execute call, also when the dispatch
\* gave a failure; run is called for nothing else, and execute only from within a
\* run call.
C25_NoRetry ==
    LET requested == RequestedIds
        dispatched == RunIds
    IN /\ \A id \in Range(requested) : Occurrences(dispatched, id) = 1
       /\ Range(dispatched) \subseteq Range(requested)
       /\ \A i \in 1..Len(log) :
             log[i].ev = "execute" => (i > 1 /\ log[i - 1].ev = "run")
       /\ \A i \in RunPositions :
             (i < Len(log) /\ log[i + 1].ev = "execute") =>
                 (i + 2 <= Len(log) /\ log[i + 2].ev # "execute")

\* C25 witness: the tool threw on both tool uses of a response, the user message
\* with the two failures was sent, and there were two run and two execute calls
C25_Witness ==
    /\ pc = "call"
    /\ apiCalls = 2
    /\ Len(EventsOf("run")) = 2
    /\ Len(EventsOf("execute")) = 2
    /\ \A i \in RunPositions : EffectorFailed(i) /\ log[i + 1].ev = "execute"

----------------------------------------------------------------------------
(* Claims about the ToolCollection *)

\* The list passed to the constructor and the sequence toParams returned
Passed == log[1].tools
Described == log[2].params

\* C26 (as claimed): toParams returns the descriptor of every tool passed to the
\* constructor exactly once, for every list, also when two tools of the list
\* report the same name.
C26_Original ==
    pc = "described" =>
        \A t \in Range(Passed) : Occurrences(Described, ToParams(t)) = 1

\* The tool at position k is the last one of the list with its name
LastOfItsName(tools, k) ==
    \A j \in (k + 1)..Len(tools) : ToParamsName(tools[j]) # ToParamsName(tools[k])

\* C26 (amended): toParams returns one descriptor per distinct name of the list
\* passed to the constructor: the descriptor of the last tool passed with that
\* name, exactly once; a tool that a later tool of the same name replaced is not
\* described.
C26_DescribesRegistered ==
    pc = "described" =>
        /\ \A k \in 1..Len(Passed) :
              Occurrences(Described, ToParams(Passed[k]))
                  = IF \E j \in k..Len(Passed) :
                           Passed[j] = Passed[k] /\ LastOfItsName(Passed, j)
                    THEN 1 ELSE 0
        /\ Len(Described) = Cardinality({ToParamsName(t) : t \in Range(Passed)})
        /\ \A k \in 1..Len(Described) : Described[k].describes \in Range(Passed)

\* C26 witness: a list of two ComputerTool instances and the BashTool has been
\* described by two descriptors, the second instance's and the BashTool's
C26_Witness ==
    /\ pc = "described"
    /\ Passed = <<"ComputerTool", "BashTool", "ComputerTool#2">>
    /\ Described = <<ToParams("ComputerTool#2"), ToParams("BashTool")>>

----------------------------------------------------------------------------
(* Claims about concurrent sendMessage calls *)

\* The conversation array invocation i passed to run (0: none)
Ref(i) == pc[i].messages

\* What belongs to invocation i alone
Own(i) == <<pc[i], response[i], idx[i], toolResultContent[i], apiCalls[i]>>

\* Every tool_use and tool_result block of message m carries an id of invocation i
BlocksOf(m, i) ==
    \A b \in Range(ItemsOf(m.content)) :
        /\ b.type = "tool_use" => b.id[1][1] = i
        /\ b.type = "tool_result" => b.tool_use_id[1][1] = i

\* C27: two sendMessage calls never share a conversation array; the array of a call
\* starts with exactly one user message, the text the call was given, followed
\* only by assistant messages of that call's responses and user messages with that
\* call's tool results; a step that leaves a call where it is leaves its array
\* as it is, a new array holds one message, and no step changes the toolMap.
C27_OwnConversation ==
    /\ [](\A i \in Invocations : \A j \in Invocations :
             (i # j /\ Ref(i) # 0) => Ref(i) # Ref(j))
    /\ [](\A i \in Invocations :
             Ref(i) # 0 =>
                 LET conv == messages[Ref(i)]
                 IN /\ conv[1] = [role |-> "user", content |-> Str(log[i][1].message)]
                    /\ \A m \in 2..Len(conv) :
                          /\ conv[m].role = IF m % 2 = 0 THEN "assistant" ELSE "user"
                          /\ ArrayIsArray(conv[m].content)
                          /\ BlocksOf(conv[m], i))
    /\ [][ /\ toolMap' = toolMap
           /\ \A r \in 1..Len(messages') :
                 r > Len(messages) => Len(messages'[r]) = 1
           /\ \A j \in Invocations :
                 (Ref(j) # 0 /\ Own(j)' = Own(j)) => messages'[Ref(j)] = messages[Ref(j)]
         ]_vars

\* C27 witness: both sendMessage calls are in flight with a service call each,
\* after one turn with a tool use each, on two conversations of three messages
C27_Witness ==
    /\ pc[1].at = "call"
    /\ pc[2].at = "call"
    /\ Len(messages) = 2
    /\ Ref(1) # Ref(2)
    /\ Len(messages[1]) = 3
    /\ Len(messages[2]) = 3
    /\ apiCalls = [i \in Invocations |-> 2]

----------------------------------------------------------------------------

(* ComputerTool.execute and the actions of the README *)

Executed == pc = "executed" /\ Last(log).ev = "execute"

InvalidAction(outcome) ==
    /\ outcome.kind = "throw"
    /\ outcome.message = "Invalid action: " \o Last(log).params.action

\* The parameters an action of the README needs are given: those execute asks for,
\* none of those it refuses, and the window title for every window action
RequiredGiven(params) ==
    LET action == params.action
        has(f) == f \in DOMAIN params
    IN CASE action \in {"mouse_move", "left_click_drag"} -> has("coordinate")
         [] action = "mouse_toggle" -> has("toggleState")
         [] action = "mouse_scroll" -> has("scrollAmount") /\ params.scrollAmount # 0
         [] action = "key_toggle" -> has("text") /\ has("toggleState")
         [] action = "key_tap_multiple" -> has("text")
         [] action \in {"focus_window", "minimize_window", "maximize_window"} ->
              has("windowTitle")
         [] action = "move_window" -> has("windowTitle") /\ has("coordinate")
         [] action = "resize_window" -> has("windowTitle") /\ has("size")
         [] action \in {"left_click", "right_click", "middle_click"} ->
              ~has("text") /\ ~has("coordinate")
         [] action \in {"key", "type"} -> has("text") /\ ~has("coordinate")
         [] OTHER -> TRUE

\* C28 (as claimed): every action the README lists under "Available Actions" is
\* handled by ComputerTool.execute: given its required parameters, the call does
\* not end in the "Invalid action" error.
C28_ReadmeActionsHandled ==
    (/\ Executed
     /\ Last(log).params.action \in ReadmeActions
     /\ RequiredGiven(Last(log).params)) =>
        ~InvalidAction(Last(log).outcome)

----------------------------------------------------------------------------

(* The undo history of the EditTool *)

Mutating == {"create", "str_replace", "insert"}

\* The command of this step changed the file system or the history
Changed == log' # log

\* C29 (as claimed): the EditTool keeps one undo stack per path. In every step,
\* a mutating command (create, str_replace, insert) that succeeds pushes the
\* content the file at its path had before the mutation onto the stack of that
\* path, undo_edit pops the stack of the path it names, and the stack of every
\* other path is left as it was.
C29_UndoStackPerPath ==
    [][ \A p \in EditPaths :
            LET old == HistoryOf(fileHistory, p)
                new == HistoryOf(fileHistory', p)
                e == Last(log')
            IN IF Changed /\ e.path = p
               THEN IF e.ev \in Mutating
                    THEN /\ p \in DOMAIN files
                         /\ new = Append(old, files[p].content)
                    ELSE /\ e.ev = "undo_edit"
                         /\ old # <<>>
                         /\ new = SubSeq(old, 1, Len(old) - 1)
               ELSE new = old ]_vars

\* The commands of the log that name one path
PathEvents(p) == LET Names(e) == e.path = p IN SelectSeq(log, Names)

Edit(e) == e.ev \in {"str_replace", "insert"} /\ e.error = NoError
Undo(e) == e.ev = "undo_edit" /\ e.error = NoError

\* events[first .. first + 2k - 1] is k successful edits followed by k successful
\* undo_edit commands
EditsThenUndos(events, first, k) ==
    /\ k >= 1
    /\ first + 2 * k - 1 <= Len(events)
    /\ \A m \in 0..(k - 1) : Edit(events[first + m])
    /\ \A m \in k..(2 * k - 1) : Undo(events[first + m])

\* C30: undo_edit is last-in-first-out. Wherever the commands on one path are k
\* successful str_replace/insert commands followed by k successful undo_edit
\* commands, the m-th undo leaves the file with the content it had before the
\* m-th most recent of those edits, so that the last one restores the content
\* from before the first edit.
C30_UndoIsLifo ==
    \A p \in EditPaths :
        LET events == PathEvents(p)
        IN \A first \in 1..Len(events), k \in 1..Len(events) :
               EditsThenUndos(events, first, k) =>
                   \A m \in 1..k :
                       events[first + k + m - 1].after[1].content
                           = events[first + k - m].before[1].content

\* Two edits of different kinds on /f, on different contents, have both been undone
C30_Witness ==
    LET events == PathEvents("/f")
    IN /\ Len(events) = 4
       /\ EditsThenUndos(events, 1, 2)
       /\ events[1].ev # events[2].ev
       /\ events[1].before # events[2].before
       /\ Stat(files, "/f") = events[1].before

\* The last command through the registry
LastCommand == response[1]

Commanded(command) == response # <<>> /\ LastCommand.params.command = command

\* The command left the file system and every history stack as they were
NothingChanged ==
    /\ files = LastCommand.filesBefore
    /\ fileHistory = LastCommand.historyBefore

\* toolCollection.run resolved with a failure result carrying the ToolError's text
FailureResult ==
    /\ rejection # NoError
    /\ LastCommand.kind = "return"
    /\ LastCommand.result = ToolFailure(rejection)
    /\ Truthy(LastCommand.result, "error")

\* C31: undo_edit on a path with no remaining history (never edited through this
\* EditTool, or every edit undone already) fails with a validation error, for an
\* existing file the one saying that no edit history was found, and leaves the
\* file system and every history stack unchanged; toolCollection.run resolves
\* with a failure result instead of rejecting.
C31_UndoWithoutHistory ==
    (/\ Commanded("undo_edit")
     /\ HistoryOf(LastCommand.historyBefore, LastCommand.params.path) = <<>>) =>
        LET filePath == LastCommand.params.path
        IN /\ FailureResult
           /\ NothingChanged
           /\ (filePath \in DOMAIN files /\ ~files[filePath].isDirectory) =>
                  rejection = "No edit history found for " \o filePath \o "."

\* The create of /g has been undone, and a further undo_edit on /g found nothing
\* left
C31_Witness ==
    /\ Commanded("undo_edit")
    /\ LastCommand.params.path = "/g"
    /\ "/g" \in DOMAIN LastCommand.historyBefore
    /\ LastCommand.historyBefore["/g"] = <<>>
    /\ rejection = "No edit history found for /g."
    /\ Len(log) >= 2

\* The places where a text occurs in a content
PlacesOf(content, search) ==
    { i \in 1..(Len(content) - Len(search) + 1) :
          SubSeq(content, i, i + Len(search) - 1) = search }

\* The new_str of a str_replace command, empty when left out
NewStrOf(params) == IF "new_str" \in DOMAIN params THEN params.new_str ELSE <<>>

\* Everything but the file and the history stack at one path is as it was before
\* the last command
OthersUnchanged(filePath) ==
    /\ DOMAIN files = DOMAIN LastCommand.filesBefore \cup {filePath}
    /\ \A p \in DOMAIN files \ {filePath} : files[p] = LastCommand.filesBefore[p]
    /\ \A p \in EditPaths \ {filePath} :
           HistoryOf(fileHistory, p) = HistoryOf(LastCommand.historyBefore, p)

\* C32 (as claimed): str_replace on a file writes it only when old_str occurs
\* exactly once in it. With no or with more than one occurrence the command fails
\* with a validation error and neither a file nor the undo history changes; when
\* the command succeeds, exactly that one occurrence has been replaced by new_str
\* and exactly one history entry, the prior content, has been added.
C32_ReplaceOnlyUnique ==
    (/\ Commanded("str_replace")
     /\ "old_str" \in DOMAIN LastCommand.params
     /\ LastCommand.params.path \in DOMAIN LastCommand.filesBefore
     /\ ~LastCommand.filesBefore[LastCommand.params.path].isDirectory) =>
        LET filePath == LastCommand.params.path
            oldStr == LastCommand.params.old_str
            content == LastCommand.filesBefore[filePath].content
            places == PlacesOf(content, oldStr)
        IN IF Cardinality(places) # 1
           THEN FailureResult /\ NothingChanged
           ELSE IF rejection # NoError
           THEN FailureResult /\ NothingChanged
           ELSE LET i == CHOOSE j \in places : TRUE
                IN /\ files[filePath].content =
                          SubSeq(content, 1, i - 1) \o NewStrOf(LastCommand.params)
                          \o SubSeq(content, i + Len(oldStr), Len(content))
                   /\ fileHistory[filePath] =
                          Append(HistoryOf(LastCommand.historyBefore, filePath), content)
                   /\ OthersUnchanged(filePath)

\* C33 (as claimed): create never overwrites. When something exists at the path
\* already, the command fails with the error saying that the file already exists
\* and cannot be overwritten using 'create', and the file system and the undo
\* history are unchanged.
C33_CreateNeverOverwrites ==
    (/\ Commanded("create")
     /\ LastCommand.params.path \in DOMAIN LastCommand.filesBefore) =>
        /\ FailureResult
        /\ rejection = "File already exists at: " \o LastCommand.params.path
                       \o ". Cannot overwrite files using command 'create'."
        /\ NothingChanged

----------------------------------------------------------------------------
(* The screenshot step of the ComputerTool *)

\* The calls of takeScreenshot made so far, and the results the registry gave
Attempts == SelectSeq(log, LAMBDA e : e.ev = "takeScreenshot")
Resolved == SelectSeq(log, LAMBDA e : e.ev = "run")

LastAttempt == response[1]

\* At most SCREENSHOT_RETRY_COUNT attempts, each but the last one failed, a
\* success is returned at once, only the third failure is thrown, and the
\* registry resolves once, with the image or with one failure result
RetriesWithin ==
    /\ Len(Attempts) <= SCREENSHOT_RETRY_COUNT
    /\ \A k \in 1..Len(Attempts) :
           /\ Attempts[k].attempt = k
           /\ k < Len(Attempts) => Attempts[k].failed
    /\ pc = "attempt" => Resolved = <<>> /\ \A k \in 1..Len(Attempts) : Attempts[k].failed
    /\ pc = "returned" =>
           /\ ~Attempts[Len(Attempts)].failed
           /\ LastAttempt.outcome.kind = "return"
           /\ Resolved = <<[ev |-> "run", result |-> LastAttempt.outcome.result]>>
    /\ pc = "thrown" =>
           /\ Len(Attempts) = SCREENSHOT_RETRY_COUNT
           /\ Attempts[Len(Attempts)].failed
           /\ LastAttempt.outcome.kind = "throw"
           /\ Len(Resolved) = 1
           /\ DOMAIN Resolved[1].result = {"error"}

\* C34: the screenshot step makes at most SCREENSHOT_RETRY_COUNT attempts,
\* returns the first success without attempting again, retries only after a
\* failure, and reports the third failure in a row as a ToolError, which the
\* caller of the registry sees as one failure result carrying its message
C34_RetriesEndInToolError ==
    /\ RetriesWithin
    /\ pc = "thrown" =>
           /\ LastAttempt.outcome.class = "ToolError"
           /\ Resolved[1].result = ToolFailure(LastAttempt.outcome.message)

\* The JPEG steps whose encoding of the captured screen fits
Fits(encoding) == ~Threw(encoding) /\ encoding.length <= MAX_IMAGE_SIZE
FittingSteps(screen) == { k \in 1..Len(COMPRESSION_STEPS) : Fits(screen.jpeg[k]) }

Encoded(screen) == screen.mkdir /\ screen.capture /\ ~Threw(screen.png)

\* C35: takeScreenshot never returns an image larger than MAX_IMAGE_SIZE. An
\* image it returns is the PNG encoding, as image/png, when that fits, and
\* otherwise the first of the JPEG steps initial, medium, high, extreme that
\* fits, as image/jpeg; when no encoding fits it fails instead of returning.
C35_FirstEncodingThatFits ==
    response # <<>> =>
        LET screen == LastAttempt.screen
            outcome == LastAttempt.outcome
        IN /\ outcome.kind = "return" =>
                 /\ outcome.buffer.length <= MAX_IMAGE_SIZE
                 /\ Encoded(screen)
                 /\ IF Fits(screen.png)
                    THEN /\ outcome.buffer = screen.png
                         /\ outcome.result = [base64Image |-> "png",
                                              mediaType |-> "image/png"]
                    ELSE \E k \in FittingSteps(screen) :
                            /\ \A j \in FittingSteps(screen) : k <= j
                            /\ outcome.buffer = screen.jpeg[k]
                            /\ outcome.result =
                                   [base64Image |-> "jpeg " \o COMPRESSION_STEPS[k],
                                    mediaType |-> "image/jpeg"]
           /\ (Encoded(screen) /\ ~Fits(screen.png) /\ FittingSteps(screen) = {}) =>
                 outcome.kind = "throw"

----------------------------------------------------------------------------
(* Observation and dispatch, block by block *)

\* Positions of the outputCallback events for a tool_use block
RequestsObserved ==
    {i \in 1..Len(log) : log[i].ev = "outputCallback" /\ log[i].block.type = "tool_use"}

\* C36: outputCallback is called with a tool_use block before the block is
\* dispatched, the dispatch follows at once, and the dispatch with its
\* toolOutputCallback has completed before outputCallback is called with any
\* later block: observation and dispatch alternate block by block.
C36_ObserveDispatchInterleaved ==
    \A i \in RequestsObserved :
        /\ \A j \in 1..(i - 1) : log[j].ev = "run" => log[j].id # log[i].block.id
        /\ i < Len(log) /\ log[i + 1].ev = "run" /\ log[i + 1].id = log[i].block.id
        /\ \A j \in (i + 1)..Len(log) :
               log[j].ev = "outputCallback" =>
                   \E c \in (i + 2)..(j - 1) :
                       log[c].ev = "toolOutputCallback" /\ log[c].toolId = log[i].block.id

\* C36 witness: a response of a tool_use block, a text block and a tool_use block
\* has been processed, and each tool_use block was observed, dispatched and its
\* result observed before the next block was observed
C36_Witness ==
    /\ pc = "call"
    /\ Len(ResponsesReceived) = 1
    /\ Len(ResponsesReceived[1]) = 3
    /\ ResponsesReceived[1][1].type = "tool_use"
    /\ ResponsesReceived[1][2].type = "text"
    /\ ResponsesReceived[1][3].type = "tool_use"
    /\ \E i \in RequestsObserved :
          /\ log[i].block = ResponsesReceived[1][1]
          /\ \E c \in (i + 2)..(i + 3) :
                /\ log[c].ev = "toolOutputCallback"
                /\ log[c + 1] = [ev |-> "outputCallback", block |-> ResponsesReceived[1][2]]
                /\ log[c + 2] = [ev |-> "outputCallback", block |-> ResponsesReceived[1][3]]
                /\ log[c + 3].ev = "run"

----------------------------------------------------------------------------
(* Validation in ComputerTool.execute *)

\* The request is one execute refuses: a parameter the action needs is missing,
\* one it does not accept is given, the coordinate is outside the screen, or the
\* action has no case in the switch
Refused(params, machine) ==
    LET action == params.action
        has(f) == f \in DOMAIN params
    IN CASE action \in {"mouse_move", "left_click_drag"} ->
              ~has("coordinate") \/ machine \in {"off screen", "off scaled screen"}
         [] action = "mouse_toggle" -> ~has("toggleState")
         [] action = "mouse_scroll" -> has("scrollAmount") /\ params.scrollAmount = 0
         [] action = "key_toggle" -> ~has("text") \/ ~has("toggleState")
         [] action = "key_tap_multiple" -> ~has("text")
         [] action = "focus_window" -> ~has("windowTitle")
         [] action = "move_window" ->
              ~has("windowTitle") \/ ~has("coordinate") \/ machine = "off scaled screen"
         [] action = "resize_window" -> ~has("windowTitle") \/ ~has("size")
         [] action \in {"left_click", "right_click", "middle_click", "double_click"} ->
              has("text") \/ has("coordinate")
         [] action \in {"key", "type"} -> ~has("text") \/ has("coordinate")
         [] action \in {"screenshot", "cursor_position"} -> FALSE
         [] OTHER -> TRUE

\* C37: a request that execute refuses for a missing, forbidden or out-of-bounds
\* parameter or for an unknown action ends in a ToolError, and no robot call, no
\* command and no screenshot has been made before the error is thrown.
C37_ValidationBeforeEffects ==
    (Executed /\ Refused(Last(log).params, Last(log).machine)) =>
        /\ Last(log).outcome.kind = "throw"
        /\ Last(log).outcome.class = "ToolError"
        /\ Last(log).outcome.effects = <<>>

\* C37 witness: left_click_drag to a coordinate outside the screen was refused
\* with no call made, while the same request on a screen that holds the
\* coordinate presses, drags and releases before the screenshot
C37_Witness ==
    /\ Executed
    /\ Last(log).params = [action |-> "left_click_drag", coordinate |-> <<10, 20>>]
    /\ Last(log).machine = "off screen"
    /\ Last(log).outcome.kind = "throw"
    /\ Last(log).outcome.effects = <<>>
    /\ ComputerToolExecute(Last(log).params, "works").effects
           = <<"robot.mouseToggle", "robot.dragMouse", "robot.mouseToggle",
               "takeDelayedScreenshot">>

====
